---- MODULE Spec2Model ----
(***************************************************************************)
(* A model of the routine execution engine of auto-maple:                  *)
(*   - the routine components Point, Label, Jump and Setting               *)
(*     (src/routine/components.py),                                        *)
(*   - the decision loop Bot._main that evaluates the element under the    *)
(*     cursor and steps the routine (src/modules/bot.py),                  *)
(*   - the global flag config.enabled, written by the other loops,         *)
(*   - the textual form of a component (Component.encode, separate_args).  *)
(* The cursor config.routine.index is 0-based as in the code; positions in *)
(* the TLA+ sequence are 1-based, so the element under the cursor is       *)
(* sequence[index + 1].                                                    *)
(***************************************************************************)
EXTENDS Integers, Sequences, FiniteSets, TLC

VARIABLES
    sequence,   \* config.routine.sequence: the components, with their fields
    labels,     \* config.routine.labels: label name -> position of the Label
    index,      \* config.routine.index: the cursor
    enabled,    \* config.enabled
    pc,         \* where Bot._main is in its loop body
    element,    \* Bot._main's local `element` (a position, 0 before the first)
    fault,      \* the exception that ended the decision loop, or "none"
    visits,     \* history: per position, how often main() was entered
    actedOn,    \* history: per position, the visits on which it acted
    steps,      \* history: how many elements Bot._main has begun to evaluate
    pauses,     \* history: how often config.enabled was set to False
    edits,      \* history: how many update() calls were made
    lastOp,     \* history: the last operation of the editing thread
    codec,      \* a component on its way through encode and the script parser
    now,        \* time.time(), in ticks
    tracker,    \* config.bot.cooldown_tracker
    settings,   \* the live settings: the attributes of the module settings
    move,       \* the Move command that Point.main executes, and its locals
    table,      \* SKILL_COOLDOWNS of the module of the command book, if any
    rotation,   \* the SkillRotation command that Point.main executes, and its locals
    recording,  \* history: whether visits, actedOn, steps and pauses are kept
    rune,       \* Bot.rune_*, the global attempts and the locals of _solve_rune
    capture,    \* config.capture and what a reader has taken from it
    notifier    \* the Notifier thread, its mixer and config.listener.enabled

vars == <<sequence, labels, index, enabled, pc, element, fault,
          visits, actedOn, steps, pauses, edits, lastOp, codec,
          now, tracker, settings, move, recording, table, rotation, rune, capture, notifier>>

\* the variables of the routine and of the decision loop
routineVars == <<sequence, labels, index, enabled, pc, element, fault,
                 visits, actedOn, steps, pauses, edits, lastOp>>

\* the variables of the other parts of the program
subsystems == <<now, tracker, settings, move, recording, table, rotation, rune, capture, notifier>>

\* the variables of the other parts that the cooldown tracker leaves alone
besidesTracker == <<settings, move, recording, table, rotation, rune, capture, notifier>>

\* the variables the perception loop and the readers of its frame leave alone
besidesCapture == <<sequence, labels, index, enabled, pc, element, fault,
                    visits, actedOn, steps, pauses, edits, lastOp, codec,
                    now, tracker, settings, move, recording, table, rotation, rune, notifier>>

\* the variables the hazard monitor leaves alone
besidesNotifier == <<sequence, labels, index, pc, element, fault,
                     visits, actedOn, steps, edits, lastOp, codec,
                     now, tracker, settings, move, recording, table, rotation, capture>>

\* the variables the routine and the decision loop leave alone
others == <<codec, subsystems>>

----------------------------------------------------------------------------
(* Bounds of the model.                                                    *)

MaxFreq == 3
MaxSteps == 6
MaxPauses == 1
MaxEdits == 1

----------------------------------------------------------------------------
(* Components.                                                             *)

\* Jump.link = None, Label.index = None
NoLink == 0

\* Label.index = None: `self.index = None` in Label.__init__
None == -1

Max(a, b) == IF a >= b THEN a ELSE b

Min(S) == CHOOSE x \in S : \A y \in S : x <= y

\* int(settings.validate_boolean(skip))
BoolToInt(b) == IF b THEN 1 ELSE 0

\* settings.validate_nonnegative_int: the integers >= 0 are accepted
validate_nonnegative_int == 0..MaxFreq

\* Point.__init__(x, y, frequency, skip, adjust)
Point(frequency, skip) ==
    [id |-> "*", label |-> "", frequency |-> frequency, skip |-> skip,
     counter |-> BoolToInt(skip), link |-> NoLink, links |-> {}, index |-> NoLink]

\* Label.__init__(label)
Label(label) ==
    [id |-> "@", label |-> label, frequency |-> 1, skip |-> FALSE,
     counter |-> 0, link |-> NoLink, links |-> {}, index |-> None]

\* Jump.__init__(label, frequency, skip)
Jump(label, frequency, skip) ==
    [id |-> ">", label |-> label, frequency |-> frequency, skip |-> skip,
     counter |-> BoolToInt(skip), link |-> NoLink, links |-> {}, index |-> NoLink]

\* settings.SETTING_VALIDATORS: the keys of the registry of settings
SETTING_VALIDATORS == {"move_tolerance"}

\* the values a validator of the registry returns
SettingValues == 0..1

\* the module settings as it is imported
Defaults == [key \in SETTING_VALIDATORS |-> 0]

\* Setting.__init__(target, value)
Setting(target, value) ==
    [id |-> "$", label |-> "", frequency |-> 1, skip |-> FALSE,
     counter |-> 0, link |-> NoLink, links |-> {}, index |-> NoLink,
     key |-> target, value |-> value]

\* the components that carry frequency / counter / skip
Counted(e) == e.id \in {"*", ">"}

Positions(seq) == 1..Len(seq)

----------------------------------------------------------------------------
(* Binding.                                                                *)

\* Jump.bind with `links.add(self)` replaced by `links = {self}`
bind_overwrite(seq, labs, i) ==
    IF seq[i].label \in DOMAIN labs
    THEN LET l == labs[seq[i].label]
         IN [seq EXCEPT ![i].link = l, ![l].links = {i}]
    ELSE seq

\* Jump.bind: the sequence after the Jump at position i has bound itself
bind(seq, labs, i) ==
    IF seq[i].label \in DOMAIN labs
    THEN LET l == labs[seq[i].label]
         IN [seq EXCEPT ![i].link = l, ![l].links = @ \cup {i}]
    ELSE seq

\* the label table of a freshly loaded routine
LabelTable(seq) ==
    LET names == {seq[i].label : i \in {j \in Positions(seq) : seq[j].id = "@"}}
    IN [n \in names |-> CHOOSE i \in Positions(seq) : seq[i].id = "@" /\ seq[i].label = n]

\* Label.set_index for every Label of the sequence
SetIndices(seq) ==
    [i \in Positions(seq) |->
        IF seq[i].id = "@" THEN [seq[i] EXCEPT !.index = i - 1] ELSE seq[i]]

RECURSIVE BindFrom(_, _, _)
BindFrom(seq, labs, i) ==
    IF i > Len(seq) THEN seq
    ELSE BindFrom(IF seq[i].id = ">" THEN bind(seq, labs, i) ELSE seq, labs, i + 1)

\* the binding pass over a loaded routine
Load(seq) == BindFrom(SetIndices(seq), LabelTable(seq), 1)

----------------------------------------------------------------------------
(* The other parts of the program before they have done anything.          *)

\* Bot has no attribute cooldown_tracker yet
NoTracker == [made |-> FALSE]

\* Bot.__init__: rune_active, rune_pos, rune_closest_pos; bot.py: attempts = 0
NoRune ==
    [active |-> FALSE, pos |-> 0, closest |-> 0, attempts |-> 0,
     i |-> 0, j |-> 0, solution_found |-> FALSE, frame |-> "None",
     reply |-> "none", gaveUp |-> FALSE, escalated |-> FALSE,
     watched |-> FALSE, stored |-> {}]

\* Capture.__init__: frame = None, minimap = {}, _frame_buffer = None
NoCapture ==
    [frame |-> "None", buffer |-> <<0, 0>>, minimap |-> 0, pc |-> "grab",
     calibrated |-> FALSE, shot |-> 0, held |-> "None", heldMinimap |-> 0]

\* the perception loop has published its capture number g and sleeps
Published(g) ==
    [frame |-> "buffer", buffer |-> <<g, g>>, minimap |-> g, pc |-> "grab",
     calibrated |-> TRUE, shot |-> g, held |-> "None", heldMinimap |-> 0]

\* no Move command is being executed
NoMove ==
    [pc |-> "idle", counter |-> 0, toggle |-> TRUE,
     prev_direction |-> "", late |-> << >>, book |-> "default", fired |-> "",
     max_steps |-> 0, points |-> 0, held |-> {}, new |-> "", after |-> ""]

\* the module of the command book has no attribute SKILL_COOLDOWNS
NoTable == [id |-> 0]

\* no SkillRotation command is being executed
NoRotation ==
    [pc |-> "idle", end |-> 0, max_sec |-> 0, end_hold |-> 0, site |-> "phase",
     held |-> {}, available |-> << >>, fault |-> "none",
     chosen |-> 0, budget |-> 0, fired |-> "", attacked |-> FALSE, late |-> FALSE]

\* Notifier.__init__, and config.listener before Bot._main enabled it
NoNotifier == [pc |-> "loop", playing |-> FALSE, listener |-> TRUE, fault |-> "none"]

Quiet ==
    /\ now = 0
    /\ tracker = NoTracker
    /\ settings = Defaults
    /\ move = NoMove
    /\ table = NoTable
    /\ rotation = NoRotation
    /\ recording = TRUE
    /\ rune = NoRune
    /\ capture = NoCapture
    /\ notifier = NoNotifier

----------------------------------------------------------------------------
(* The routines the model runs.                                            *)

Params == validate_nonnegative_int \X BOOLEAN

Programs ==
    {<< >>}
    \cup {<<Point(p[1], p[2])>> : p \in Params}
    \cup {<<Point(p[1], FALSE), Point(p[1], TRUE)>> : p \in Params}
    \cup {<<Point(2, FALSE), Label("a"), Jump("a", q[1], q[2])>> : q \in Params}
    \cup {<<Label("a"), Point(p[1], p[2]), Jump("a", 1, FALSE)>> : p \in Params}
    \cup {<<Label("a"), Jump("a", q[1], q[2])>> : q \in Params}
    \cup {<<Jump("b", q[1], q[2]), Point(1, FALSE)>> : q \in Params}
    \cup {<<Label("a"), Jump("a", q[1], FALSE), Jump("a", q[1], TRUE),
              Setting("move_tolerance", 1)>> :
            q \in Params}

\* the routine and the decision loop after a routine was loaded
LoadedRoutine(progs) ==
    /\ \E prog \in progs :
        /\ sequence = Load(prog)
        /\ labels = LabelTable(prog)
    /\ index = 0
    /\ enabled \in BOOLEAN
    /\ pc = "loop"
    /\ element = 0
    /\ fault = "none"
    /\ visits = [i \in Positions(sequence) |-> 0]
    /\ actedOn = [i \in Positions(sequence) |-> {}]
    /\ steps = 0
    /\ pauses = 0
    /\ edits = 0
    /\ lastOp = <<"load", 0>>

\* the state after a routine was loaded, before the decision loop's first poll
Loaded(progs) ==
    /\ LoadedRoutine(progs)
    /\ codec = [stage |-> "idle"]
    /\ Quiet

Init == Loaded(Programs)

----------------------------------------------------------------------------
(* The decision loop, Bot._main.                                           *)

Cur == sequence[element]

\* Point.main, `if self.counter == 0`, negated
PointActs_negated(e) == e.counter # 0

\* Point.main: `if self.counter == 0`, the visit moves and runs the commands
PointActs(e) == e.counter = 0

\* Jump.main: `if self.counter == 0`, the cursor is redirected
JumpTaken(e) == e.counter = 0

\* Jump.main with the assignment to config.routine.index lost
JumpTarget_unchanged(e) == index

\* Jump.main: `config.routine.index = self.link.index`
JumpTarget(e) == sequence[e.link].index

\* Jump.main, `if self.link is None`, dropped
Unresolved_never(e) == FALSE

\* Jump.main: `if self.link is None`
Unresolved(e) == e.link = NoLink

\* _increment_counter with the modulus one too large
increment_counter_off_by_one(e) == (e.counter + 1) % (e.frequency + 1)

\* Point._increment_counter, Jump._increment_counter (frequency # 0)
increment_counter(e) == (e.counter + 1) % e.frequency

\* Routine.step: the cursor after a step
step(i, len) == (i + 1) % len

\* Point.location: a Point is where it stands in the sequence
location(i) == i

\* `if self.rune_active and isinstance(element, Point)
\*      and element.location == self.rune_closest_pos`
RuneDue(i) == rune.active /\ sequence[i].id = "*" /\ location(i) = rune.closest

\* `while True: if config.enabled and len(config.routine) > 0 ...:
\*      element = config.routine[config.routine.index]`, and the test whether
\* the rune is to be solved before the element is executed
\* (otherwise the loop sleeps and polls again, which changes nothing)
Poll ==
    /\ pc = "loop"
    /\ enabled
    /\ Len(sequence) > 0
    /\ recording => steps < MaxSteps
    /\ element' = index + 1
    /\ steps' = IF recording THEN steps + 1 ELSE steps
    /\ pc' = IF RuneDue(index + 1) THEN "solve_rune" ELSE "execute"
    /\ UNCHANGED <<sequence, labels, index, enabled, fault, visits, actedOn,
                   pauses, edits, lastOp>>
    /\ UNCHANGED others

\* Component.execute: `@utils.run_if_enabled def execute(self): self.main()`
Execute ==
    /\ pc = "execute"
    /\ IF enabled
       THEN /\ pc' = "main"
            /\ visits' = IF recording THEN [visits EXCEPT ![element] = @ + 1] ELSE visits
       ELSE /\ pc' = "step"
            /\ UNCHANGED visits
    /\ UNCHANGED <<sequence, labels, index, enabled, element, fault, actedOn,
                   steps, pauses, edits, lastOp>>
    /\ UNCHANGED others

\* Point.main up to the call of _increment_counter
PointMain ==
    /\ pc = "main"
    /\ Cur.id = "*"
    /\ actedOn' = IF PointActs(Cur) /\ recording
                  THEN [actedOn EXCEPT ![element] = @ \cup {visits[element]}]
                  ELSE actedOn
    /\ pc' = "increment"
    /\ UNCHANGED <<sequence, labels, index, enabled, element, fault, visits,
                   steps, pauses, edits, lastOp>>
    /\ UNCHANGED others

\* Jump.main up to the call of _increment_counter
JumpMain ==
    /\ pc = "main"
    /\ Cur.id = ">"
    /\ IF Unresolved(Cur)
       THEN /\ pc' = "step"
            /\ UNCHANGED <<index, actedOn, fault>>
       ELSE IF Cur.link = NoLink
       THEN \* self.link.index on None: AttributeError
            /\ pc' = "crashed"
            /\ fault' = "AttributeError"
            /\ UNCHANGED <<index, actedOn>>
       ELSE /\ IF JumpTaken(Cur)
               THEN /\ index' = JumpTarget(Cur)
                    /\ actedOn' = IF recording
                                  THEN [actedOn EXCEPT ![element] = @ \cup {visits[element]}]
                                  ELSE actedOn
               ELSE UNCHANGED <<index, actedOn>>
            /\ pc' = "increment"
            /\ UNCHANGED fault
    /\ UNCHANGED <<sequence, labels, enabled, element, visits,
                   steps, pauses, edits, lastOp>>
    /\ UNCHANGED others

\* Setting.main: setattr(settings, self.key, self.value)
setattr(live, e) == [live EXCEPT ![e.key] = e.value]

\* Component.main (`pass`) for a Label; Setting.main
OtherMain ==
    /\ pc = "main"
    /\ Cur.id \in {"@", "$"}
    /\ settings' = IF Cur.id = "$" THEN setattr(settings, Cur) ELSE settings
    /\ pc' = "step"
    /\ UNCHANGED <<sequence, labels, index, enabled, element, fault, visits,
                   actedOn, steps, pauses, edits, lastOp>>
    /\ UNCHANGED <<codec, now, tracker, move, recording, table, rotation, rune, capture, notifier>>

\* `@utils.run_if_enabled def _increment_counter(self):
\*      self.counter = (self.counter + 1) % self.frequency`
Increment ==
    /\ pc = "increment"
    /\ IF ~enabled
       THEN /\ pc' = "step"
            /\ UNCHANGED <<sequence, fault>>
       ELSE IF Cur.frequency = 0
       THEN \* integer modulo by zero: ZeroDivisionError leaves Bot._main
            /\ pc' = "crashed"
            /\ fault' = "ZeroDivisionError"
            /\ UNCHANGED sequence
       ELSE /\ sequence' = [sequence EXCEPT ![element].counter = increment_counter(Cur)]
            /\ pc' = "step"
            /\ UNCHANGED fault
    /\ UNCHANGED <<labels, index, enabled, element, visits, actedOn,
                   steps, pauses, edits, lastOp>>
    /\ UNCHANGED others

\* config.routine.step(): advance the cursor, if enabled
Step ==
    /\ pc = "step"
    /\ IF enabled /\ index = None
       THEN \* None + 1: TypeError leaves Bot._main
            /\ pc' = "crashed"
            /\ fault' = "TypeError"
            /\ UNCHANGED index
       ELSE /\ index' = IF enabled THEN step(index, Len(sequence)) ELSE index
            /\ pc' = "loop"
            /\ UNCHANGED fault
    /\ UNCHANGED <<sequence, labels, enabled, element, visits, actedOn,
                   steps, pauses, edits, lastOp>>
    /\ UNCHANGED others

----------------------------------------------------------------------------
(* The other threads.                                                      *)

\* config.enabled = False (Notifier._alert, the default step and Buff)
Pause ==
    /\ pc # "killed"
    /\ enabled
    /\ recording => pauses < MaxPauses
    /\ enabled' = FALSE
    /\ pauses' = IF recording THEN pauses + 1 ELSE pauses
    /\ UNCHANGED <<sequence, labels, index, pc, element, fault, visits, actedOn,
                   steps, edits, lastOp>>
    /\ UNCHANGED others

\* config.enabled = True (the start/stop control)
Resume ==
    /\ pc # "killed"
    /\ notifier.listener
    /\ ~enabled
    /\ enabled' = TRUE
    /\ UNCHANGED <<sequence, labels, index, pc, element, fault, visits, actedOn,
                   steps, pauses, edits, lastOp>>
    /\ UNCHANGED others

\* Jump.bind() called on the Jump at position i
Bind(i) ==
    /\ sequence[i].id = ">"
    /\ sequence' = bind(sequence, labels, i)
    /\ lastOp' = <<IF sequence[i].link # NoLink THEN "rebind" ELSE "bind", i>>
    /\ UNCHANGED <<labels, index, enabled, pc, element, fault, visits, actedOn,
                   steps, pauses, edits>>
    /\ UNCHANGED others

\* Component.update(frequency, skip) on the Point or Jump at position i:
\* __init__ runs again on the same object
Update(i, frequency, skip) ==
    /\ Counted(sequence[i])
    /\ edits < MaxEdits
    /\ sequence' = [sequence EXCEPT
            ![i].frequency = frequency,
            ![i].skip = skip,
            ![i].counter = BoolToInt(skip),
            ![i].link = NoLink]
    /\ edits' = edits + 1
    /\ lastOp' = <<"update", i>>
    /\ UNCHANGED <<labels, index, enabled, pc, element, fault, visits, actedOn,
                   steps, pauses>>
    /\ UNCHANGED others

\* the steps of Bot._main and of the element it executes
LoopNext ==
    \/ Poll
    \/ Execute
    \/ PointMain
    \/ JumpMain
    \/ OtherMain
    \/ Increment
    \/ Step

Next ==
    \/ LoopNext
    \/ Pause
    \/ Resume

Spec == Init /\ [][Next]_vars

----------------------------------------------------------------------------
(* The editing thread, alone and together with the decision loop.           *)

\* the routines that are edited
EditPrograms ==
    {<<Point(1, FALSE)>>,
     <<Label("a"), Point(1, FALSE), Jump("a", 1, FALSE)>>,
     <<Jump("b", 1, FALSE), Point(1, FALSE)>>,
     <<Label("a"), Jump("a", 1, FALSE), Jump("a", 1, TRUE),
       Setting("move_tolerance", 1)>>}

InitEdit == Loaded(EditPrograms)

NextEdit ==
    \/ \E i \in Positions(sequence) : Bind(i)
    \/ \E i \in Positions(sequence), p \in Params : Update(i, p[1], p[2])

SpecEdit == InitEdit /\ [][NextEdit]_vars

NextLive ==
    \/ Next
    \/ NextEdit

\* the routines that are edited while the decision loop runs them
LivePrograms ==
    {<<Jump("b", 1, FALSE), Point(1, FALSE)>>,
     <<Label("a"), Jump("a", 1, FALSE)>>}

InitLive == Loaded(LivePrograms)

SpecLive == InitLive /\ [][NextLive]_vars

----------------------------------------------------------------------------
(* Construction and update with arguments that __init__ may refuse.        *)
(* Component.update first constructs a new object of the same class from   *)
(* the arguments and only then runs __init__ on the edited one.            *)

\* the label names an edit can give
Names == {"a", "b"}

\* the frequencies an edit can give: the accepted ones and a negative one
Frequencies == validate_nonnegative_int \cup {-1}

\* the setting keys an edit can give: the registered ones and an unknown one
Targets == SETTING_VALIDATORS \cup {"speed"}

\* the arguments of a constructor call; a class reads the fields it takes
Arguments ==
    [label : Names, frequency : Frequencies, skip : BOOLEAN,
     target : Targets, value : SettingValues]

\* whether __init__ of the class id raises on the arguments a
Raises(id, a, labs) ==
    CASE id = "*" -> a.frequency \notin validate_nonnegative_int
      [] id = ">" -> a.frequency \notin validate_nonnegative_int
      [] id = "@" -> a.label \in DOMAIN labs
      [] id = "$" -> a.target \notin SETTING_VALIDATORS

\* __init__ on the element e, when it returns
init(e, a) ==
    CASE e.id = "*" ->
            [e EXCEPT !.frequency = a.frequency, !.skip = a.skip,
                      !.counter = BoolToInt(a.skip)]
      [] e.id = ">" ->
            [e EXCEPT !.label = a.label, !.frequency = a.frequency,
                      !.skip = a.skip, !.counter = BoolToInt(a.skip),
                      !.link = NoLink]
      [] e.id = "@" ->
            [e EXCEPT !.label = a.label, !.links = {}, !.index = None]
      [] e.id = "$" ->
            [e EXCEPT !.key = a.target, !.value = a.value]

\* __init__ on the element e, when it raises: the assignments before the raise
init_raising(e, a) ==
    CASE e.id = "*" -> e
      [] e.id = ">" -> [e EXCEPT !.label = a.label]
      [] e.id = "@" -> [e EXCEPT !.label = a.label]
      [] e.id = "$" -> [e EXCEPT !.key = a.target]

\* Component.update without the construction that validates the arguments
update_in_place(e, a, labs) ==
    IF Raises(e.id, a, labs) THEN init_raising(e, a) ELSE init(e, a)

\* Component.update: `self.__class__(*args, **kwargs)` raises before
\* `self.__init__(*args, **kwargs)` has touched the element
update(e, a, labs) ==
    IF Raises(e.id, a, labs) THEN e ELSE init(e, a)

\* element.update(**a) on the element at position i
UpdateWith(i, a) ==
    /\ edits < MaxEdits
    /\ sequence' = [sequence EXCEPT ![i] = update(sequence[i], a, labels)]
    /\ edits' = edits + 1
    /\ lastOp' = <<IF Raises(sequence[i].id, a, labels) THEN "update raised"
                   ELSE "update", i>>
    /\ UNCHANGED <<labels, index, enabled, pc, element, fault, visits, actedOn,
                   steps, pauses>>
    /\ UNCHANGED others

\* a component of class id is constructed from the arguments a; the new
\* object is in no routine yet
Construct(id, a) ==
    /\ edits < MaxEdits
    /\ edits' = edits + 1
    /\ lastOp' = <<IF Raises(id, a, labels) THEN "construct raised"
                   ELSE "construct", 0>>
    /\ UNCHANGED <<sequence, labels, index, enabled, pc, element, fault, visits,
                   actedOn, steps, pauses>>
    /\ UNCHANGED others

\* Setting.main of the Setting at position i, as the decision loop runs it
SettingMain(i) ==
    /\ sequence[i].id = "$"
    /\ settings' = setattr(settings, sequence[i])
    /\ UNCHANGED routineVars
    /\ UNCHANGED <<codec, now, tracker, move, recording, table, rotation, rune, capture, notifier>>

\* the routines whose elements are edited
ConstructPrograms ==
    {<<Label("a"), Point(1, FALSE), Jump("a", 1, FALSE),
       Setting("move_tolerance", 1)>>,
     <<Label("a"), Label("b"), Jump("b", 2, TRUE), Setting("move_tolerance", 0)>>}

InitConstruct == Loaded(ConstructPrograms)

NextConstruct ==
    \/ \E i \in Positions(sequence) : Bind(i)
    \/ \E i \in Positions(sequence), a \in Arguments : UpdateWith(i, a)
    \/ \E id \in {"*", "@", ">", "$"}, a \in Arguments : Construct(id, a)
    \/ \E i \in Positions(sequence) : SettingMain(i)

SpecConstruct == InitConstruct /\ [][NextConstruct]_vars

\* the editing thread has made a call that raised
Refused ==
    /\ edits' = edits + 1
    /\ lastOp'[1] \in {"update raised", "construct raised"}

\* C18: an update or a construction that raises leaves the fields of every
\* element, the edited one included, the label table and the live settings
\* as they were
C18_ConstructionErrorIsConfined ==
    [][Refused => /\ sequence' = sequence
                  /\ labels' = labels
                  /\ settings' = settings]_vars

\* an update was refused on a routine whose Jump is bound and whose live
\* setting has been changed by its Setting
C18_Witness ==
    /\ lastOp[1] = "update raised"
    /\ \E i \in Positions(sequence) : sequence[i].link # NoLink
    /\ settings # Defaults

----------------------------------------------------------------------------
(* The textual form of a component.  A text is a sequence of characters;   *)
(* a keyword, a numeral or a boolean literal is written as one character   *)
(* that is neither a separator nor white space.                            *)

\* the characters a string argument is made of
Chars == {"a", " ", ",", "="}

MaxStrLen == 2

Strings == UNION {[1..n -> Chars] : n \in 0..MaxStrLen}

\* Component.PRIMITIVES
PRIMITIVES == {"int", "str", "bool", "float"}

\* a constructor argument: its Python type and what f'{value}' renders
StrValue(s) == [type |-> "str", text |-> s]
IntValue(n) == [type |-> "int", text |-> <<ToString(n)>>]
BoolValue(b) == [type |-> "bool", text |-> <<IF b THEN "True" ELSE "False">>]
FloatValue(f) == [type |-> "float", text |-> <<f>>]

\* self.kwargs as Component.__init__ takes it from locals(), in definition order
PointKwargs(x, y, frequency, skip, adjust) ==
    << <<"x", x>>, <<"y", y>>, <<"frequency", frequency>>,
       <<"skip", skip>>, <<"adjust", adjust>> >>
LabelKwargs(label) == << <<"label", label>> >>
JumpKwargs(label, frequency, skip) ==
    << <<"label", label>>, <<"frequency", frequency>>, <<"skip", skip>> >>
SettingKwargs(target, value) == << <<"target", target>>, <<"value", value>> >>

\* the components that are encoded
Components ==
    {[id |-> "@", kwargs |-> LabelKwargs(StrValue(l))] : l \in Strings}
    \cup {[id |-> ">", kwargs |-> JumpKwargs(StrValue(l), IntValue(n), BoolValue(b))] :
            l \in Strings, n \in validate_nonnegative_int, b \in BOOLEAN}
    \cup {[id |-> "*", kwargs |-> PointKwargs(FloatValue(x), FloatValue("0.5"),
                                             IntValue(n), BoolValue(b), StrValue(<<"a">>))] :
            x \in {"0.0", "0.25"}, n \in validate_nonnegative_int, b \in BOOLEAN}
    \cup {[id |-> "$", kwargs |-> SettingKwargs(StrValue(<<"a">>), v)] :
            v \in {StrValue(t) : t \in Strings} \cup {FloatValue("0.5")}}

RECURSIVE EncodeArgs(_)
EncodeArgs(kwargs) ==
    IF kwargs = << >> THEN << >>
    ELSE LET key == Head(kwargs)[1]
             value == Head(kwargs)[2]
         IN (IF key # "id" /\ value.type \in PRIMITIVES
             THEN <<",", " ", key, "=">> \o value.text
             ELSE << >>) \o EncodeArgs(Tail(kwargs))

\* Component.encode, and Label.encode which puts a newline before it
encode(c) ==
    (IF c.id = "@" THEN <<"\n">> ELSE << >>) \o <<c.id>> \o EncodeArgs(c.kwargs)

WhiteSpace == {" ", "\n"}

\* str.strip()
RECURSIVE strip(_)
strip(a) ==
    IF a = << >> THEN a
    ELSE IF Head(a) \in WhiteSpace THEN strip(Tail(a))
    ELSE IF a[Len(a)] \in WhiteSpace THEN strip(SubSeq(a, 1, Len(a) - 1))
    ELSE a

\* str.find(c): the first position of c in a, 1-based, or 0
find(a, c) ==
    IF \E i \in 1..Len(a) : a[i] = c
    THEN Min({i \in 1..Len(a) : a[i] = c})
    ELSE 0

\* str.split(sep), one field more than there are separators
RECURSIVE split(_, _)
split(a, sep) ==
    LET i == find(a, sep)
    IN IF i = 0 THEN <<a>>
       ELSE <<SubSeq(a, 1, i - 1)>> \o split(SubSeq(a, i + 1, Len(a)), sep)

\* utils.separate_args: positional arguments and keyword arguments
RECURSIVE separate_args(_)
separate_args(arguments) ==
    IF arguments = << >> THEN [args |-> << >>, kwargs |-> << >>]
    ELSE LET a == strip(Head(arguments))
             i == find(a, "=")
             rest == separate_args(Tail(arguments))
         IN IF i > 0
            THEN [args |-> rest.args,
                  kwargs |-> << <<strip(SubSeq(a, 1, i - 1)),
                                  strip(SubSeq(a, i + 1, Len(a)))>> >> \o rest.kwargs]
            ELSE [args |-> <<a>> \o rest.args, kwargs |-> rest.kwargs]

\* the dict a list of (key, value) pairs builds: a later pair replaces an earlier
RECURSIVE dict(_)
dict(pairs) ==
    IF pairs = << >> THEN << >>
    ELSE LET p == pairs[Len(pairs)]
             d == dict(SubSeq(pairs, 1, Len(pairs) - 1))
         IN [k \in DOMAIN d \cup {p[1]} |-> IF k = p[1] THEN p[2] ELSE d[k]]

\* the script parser on the lines of one encoded component: blank lines are
\* skipped, a line is split at its commas, the first field is the symbol
decode(text) ==
    LET lines == split(text, "\n")
        rows == {i \in 1..Len(lines) : strip(lines[i]) # << >>}
        fields == split(lines[Min(rows)], ",")
        sep == separate_args(Tail(fields))
    IN [symbol |-> strip(Head(fields)), args |-> sep.args, kwargs |-> dict(sep.kwargs)]

\* what decoding has to return for component c
Decoded(c) ==
    [symbol |-> <<c.id>>,
     args |-> << >>,
     kwargs |-> dict([i \in 1..Len(c.kwargs) |-> <<<<c.kwargs[i][1]>>, c.kwargs[i][2].text>>])]

\* the state of the routine while only the codec runs
NoRoutine ==
    /\ sequence = << >>
    /\ labels = << >>
    /\ index = 0
    /\ enabled = FALSE
    /\ pc = "loop"
    /\ element = 0
    /\ fault = "none"
    /\ visits = << >>
    /\ actedOn = << >>
    /\ steps = 0
    /\ pauses = 0
    /\ edits = 0
    /\ lastOp = <<"load", 0>>

InitCodec ==
    /\ NoRoutine
    /\ Quiet
    /\ \E c \in Components : codec = [stage |-> "component", component |-> c]

\* the component is written to the script
Encode ==
    /\ codec.stage = "component"
    /\ codec' = [stage |-> "text", component |-> codec.component,
                 text |-> encode(codec.component)]
    /\ UNCHANGED routineVars
    /\ UNCHANGED subsystems

\* the script is read back
Decode ==
    /\ codec.stage = "text"
    /\ codec' = [stage |-> "decoded", component |-> codec.component,
                 text |-> codec.text, decoded |-> decode(codec.text)]
    /\ UNCHANGED routineVars
    /\ UNCHANGED subsystems

NextCodec ==
    \/ Encode
    \/ Decode

SpecCodec == InitCodec /\ [][NextCodec]_vars

\* C9: decoding the text encode produced yields the component's symbol and
\* its keyword arguments, and nothing else; a Label's text starts with a
\* newline
C9_RoundTrip ==
    codec.stage = "decoded" =>
        /\ codec.decoded = Decoded(codec.component)
        /\ codec.component.id = "@" => Head(codec.text) = "\n"

----------------------------------------------------------------------------
(* Properties of the counters and of the decision loop.                    *)

\* a Point, or a Jump whose link is set
ActsWhenDue(e) == e.id = "*" \/ (e.id = ">" /\ e.link # NoLink)

\* the visits of position i on which main() has already decided whether to act
VisitsDecided(i) == IF pc = "main" /\ element = i THEN visits[i] - 1 ELSE visits[i]

\* C1: with config.enabled true throughout, skip false and frequency p > 0, a
\* Point or a bound Jump has acted on exactly those of its visits so far whose
\* number is 1, 1 + p, 1 + 2p, ...
C1_ActsOnEveryPeriodthVisit ==
    \A i \in Positions(sequence) :
        LET e == sequence[i]
        IN (pauses = 0 /\ ActsWhenDue(e) /\ ~e.skip /\ e.frequency > 0)
            => actedOn[i] = {n \in 1..VisitsDecided(i) : (n - 1) % e.frequency = 0}

\* a bound Jump of frequency 2 has been visited three times and was taken on
\* the first and the third visit only
C1_Witness ==
    \E i \in Positions(sequence) :
        /\ sequence[i].id = ">"
        /\ sequence[i].link # NoLink
        /\ sequence[i].frequency = 2
        /\ ~sequence[i].skip
        /\ pauses = 0
        /\ VisitsDecided(i) = 3
        /\ actedOn[i] = {1, 3}

\* C2: a Point or bound Jump of frequency 0 acts on every visit, no visit of
\* it faults and its counter stays 0
C2_PeriodZeroActsOnEveryVisit ==
    \A i \in Positions(sequence) :
        LET e == sequence[i]
        IN (pauses = 0 /\ ActsWhenDue(e) /\ ~e.skip /\ e.frequency = 0)
            => /\ ~(pc = "crashed" /\ element = i)
               /\ e.counter = 0
               /\ actedOn[i] = 1..VisitsDecided(i)

\* C3: of two elements of the same kind and frequency that differ in skip
\* only, the one with skip true first acts exactly one visit later than the
\* other
C3_SkipFirstDefersOneVisit ==
    \A i, j \in Positions(sequence) :
        LET e == sequence[i]
            f == sequence[j]
        IN (/\ pauses = 0
            /\ ActsWhenDue(e) /\ ActsWhenDue(f)
            /\ e.id = f.id /\ e.frequency = f.frequency
            /\ ~e.skip /\ f.skip
            /\ actedOn[i] # {}
            /\ VisitsDecided(j) >= Min(actedOn[i]) + 1)
            => /\ actedOn[j] # {}
               /\ Min(actedOn[j]) = Min(actedOn[i]) + 1

\* C4 as stated: every counter is in [0, max(frequency, 1))
C4_CounterBelowPeriod ==
    \A i \in Positions(sequence) :
        LET e == sequence[i]
        IN Counted(e) => e.counter \in 0..(Max(e.frequency, 1) - 1)

\* C4, amended: every counter is in [0, max(frequency, 1)), or it is the 1 that
\* __init__ set for skip = true on an element of frequency 0 or 1
C4_CounterBelowPeriodOrSkipped ==
    \A i \in Positions(sequence) :
        LET e == sequence[i]
        IN Counted(e) =>
            \/ e.counter \in 0..(Max(e.frequency, 1) - 1)
            \/ (e.skip /\ e.frequency <= 1 /\ e.counter = 1)

\* an element was just updated to frequency 1 with skip true and its counter
\* is 1, while another counter already wrapped within its period
C4_Witness ==
    \E i, j \in Positions(sequence) :
        /\ lastOp = <<"update", i>>
        /\ sequence[i].skip /\ sequence[i].frequency = 1 /\ sequence[i].counter = 1
        /\ j # i /\ Counted(sequence[j]) /\ visits[j] >= 2

\* C5: no step taken while config.enabled is false changes the cursor or a
\* counter
C5_PausedNeverAdvances ==
    [][~enabled =>
        /\ index' = index
        /\ \A i \in Positions(sequence) : sequence'[i].counter = sequence[i].counter]_vars

\* C6: main() of an unbound Jump leaves the cursor alone and raises nothing,
\* and the step that follows moves the cursor by the ordinary rule
C6_UnresolvedBranchIsNoOp ==
    [][/\ (pc = "main" /\ Cur.id = ">" /\ Cur.link = NoLink /\ pc' # "main")
            => (pc' = "step" /\ index' = index /\ fault' = "none")
       /\ (pc = "step" /\ Cur.id = ">" /\ Cur.link = NoLink /\ enabled /\ pc' # "step")
            => (pc' = "loop" /\ index' = (element % Len(sequence)))]_vars

\* an unbound Jump was evaluated for the third time and the loop is about to
\* step past it
C6_Witness ==
    /\ pc = "step"
    /\ Cur.id = ">"
    /\ Cur.link = NoLink
    /\ visits[element] = 3
    /\ fault = "none"

\* C7: an unbound Jump visited with config.enabled true has incremented its
\* counter once per visit, modulo max(frequency, 1)
C7_UnresolvedBranchStillCounts ==
    \A i \in Positions(sequence) :
        LET e == sequence[i]
        IN (/\ e.id = ">" /\ e.link = NoLink
            /\ pauses = 0
            /\ visits[i] >= 1
            /\ pc \in {"step", "loop"})
            => e.counter = (BoolToInt(e.skip) + visits[i]) % Max(e.frequency, 1)

\* the routine [Point(0, 0, frequency=2), Label("a"), Jump("a", frequency=1)]
IsScenario ==
    /\ Len(sequence) = 3
    /\ sequence[1].id = "*" /\ sequence[1].frequency = 2 /\ ~sequence[1].skip
    /\ sequence[2].id = "@" /\ sequence[2].label = "a"
    /\ sequence[3].id = ">" /\ sequence[3].label = "a"
    /\ sequence[3].frequency = 1 /\ ~sequence[3].skip

\* six elements were evaluated and the loop is back at its poll
SixSteps == steps = 6 /\ pc = "loop"

\* C8 as stated: after six steps the Point acted three times, on its visits
\* 1, 3 and 5, and the Jump was taken on every visit
C8_ScenarioThreeActions ==
    (IsScenario /\ pauses = 0 /\ SixSteps)
        => /\ actedOn[1] = {1, 3, 5}
           /\ actedOn[3] = 1..visits[3]

\* C8, amended: the Point is visited once and acts on that visit; the Jump is
\* taken on every visit, which puts the cursor back on the Jump itself, so
\* after six steps the Point was visited once, the Label once, the Jump four
\* times
C8_ScenarioLoopsOnJump ==
    (IsScenario /\ pauses = 0)
        => /\ visits[1] <= 1
           /\ actedOn[1] = 1..VisitsDecided(1)
           /\ actedOn[3] = 1..VisitsDecided(3)
           /\ SixSteps => (visits = <<1, 1, 4>> /\ index = 2)

\* the scenario's routine has run six steps without a pause
C8_Witness == IsScenario /\ pauses = 0 /\ SixSteps

\* C10: bind() on a Jump that is already bound, the label table unchanged,
\* leaves its link and the links of that Label as they were
C10_RebindIdempotent ==
    [][\A i \in Positions(sequence) :
        (Bind(i) /\ sequence[i].link # NoLink /\ labels' = labels)
            => /\ sequence'[i].link = sequence[i].link
               /\ sequence'[sequence[i].link].links = sequence[sequence[i].link].links]_vars

\* a bound Jump was bound again, and its Label is the target of two Jumps
C10_Witness ==
    /\ lastOp[1] = "rebind"
    /\ sequence[lastOp[2]].link # NoLink
    /\ Cardinality(sequence[sequence[lastOp[2]].link].links) = 2

----------------------------------------------------------------------------
(* The cooldown tracker (src/routine/cooldown_tracker.py).  Time is counted *)
(* in ticks of the wall clock; the clock reads Epoch when the tracker is    *)
(* made, and no cooldown is longer than the time since the clock's zero.    *)

MaxCooldown == 2
MaxTime == 4

\* time.time() when the tracker is constructed
Epoch == MaxCooldown

\* the keys of SKILL_COOLDOWNS, in the order of the dict
Keys == <<"a", "b">>

KeySet == {Keys[i] : i \in 1..Len(Keys)}

\* the cooldown tables
Cooldowns == [KeySet -> 0..MaxCooldown]

\* CooldownTracker.__init__
CooldownTracker(cooldowns) ==
    [made |-> TRUE,
     cooldowns |-> cooldowns,
     last_used |-> [k \in DOMAIN cooldowns |-> 0],
     since |-> [k \in DOMAIN cooldowns |-> -1],
     out |-> << >>,
     op |-> <<"init">>,
     ref |-> 0]

\* record_used that stamps every key
record_used_all(t, key, time) == [k \in DOMAIN t.last_used |-> time]

\* CooldownTracker.record_used: the new last_used
record_used(t, key, time) == [t.last_used EXCEPT ![key] = time]

\* get_available with the comparisons made strict
get_available_strict(t, time) ==
    SelectSeq(Keys, LAMBDA k : t.cooldowns[k] < 0 \/ (time - t.last_used[k]) > t.cooldowns[k])

\* CooldownTracker.get_available: the keys off cooldown, in the order of the dict
get_available(t, time) ==
    SelectSeq(Keys, LAMBDA k : t.cooldowns[k] <= 0 \/ (time - t.last_used[k]) >= t.cooldowns[k])

\* the keys of a list
Elems(list) == {list[i] : i \in 1..Len(list)}

\* what the routine, the codec and the clock look like while only the tracker runs
InitCooldown ==
    /\ NoRoutine
    /\ codec = [stage |-> "idle"]
    /\ settings = Defaults
    /\ move = NoMove
    /\ table = NoTable
    /\ rotation = NoRotation
    /\ recording = TRUE
    /\ rune = NoRune
    /\ capture = NoCapture
    /\ notifier = NoNotifier
    /\ now = Epoch
    /\ \E cooldowns \in Cooldowns : tracker = CooldownTracker(cooldowns)

\* tracker.record_used(key)
RecordUsed(key) ==
    /\ tracker.made
    /\ tracker' = [tracker EXCEPT
            !.last_used = record_used(tracker, key, now),
            !.since = [@ EXCEPT ![key] = 0],
            !.op = <<"record_used", key>>]
    /\ UNCHANGED <<routineVars, codec, now>>
    /\ UNCHANGED besidesTracker

\* tracker.get_available()
GetAvailable ==
    /\ tracker.made
    /\ tracker' = [tracker EXCEPT
            !.out = get_available(tracker, now),
            !.op = <<"get_available">>]
    /\ UNCHANGED <<routineVars, codec, now>>
    /\ UNCHANGED besidesTracker

\* one tick of the wall clock passes
Tick ==
    /\ tracker.made
    /\ now < Epoch + MaxTime
    /\ now' = now + 1
    /\ tracker' = [tracker EXCEPT
            !.since = [k \in DOMAIN @ |-> IF @[k] < 0 THEN @[k] ELSE @[k] + 1],
            !.op = <<"tick">>]
    /\ UNCHANGED <<routineVars, codec>>
    /\ UNCHANGED besidesTracker

NextCooldown ==
    \/ \E key \in KeySet : RecordUsed(key)
    \/ GetAvailable
    \/ Tick

SpecCooldown == InitCooldown /\ [][NextCooldown]_vars

\* C11: whatever was recorded and however much time passed, a key whose
\* cooldown is 0 is in what get_available returns
C11_ZeroCooldownAlwaysAvailable ==
    tracker.made =>
        \A k \in KeySet :
            tracker.cooldowns[k] = 0 => k \in Elems(get_available(tracker, now))

\* a key of cooldown 0 was used this very tick, and get_available, called
\* right after, returned it
C11_Witness ==
    /\ tracker.made
    /\ tracker.op = <<"get_available">>
    /\ \E k \in KeySet :
        /\ tracker.cooldowns[k] = 0
        /\ tracker.since[k] = 0
        /\ k \in Elems(tracker.out)

\* C12: for a key k of cooldown > 0, record_used(k) takes k out of
\* get_available and changes the last use of no other key; once used, k is in
\* get_available exactly when at least its cooldown has elapsed since that use
C12_CooldownElapses ==
    [][tracker.made =>
        /\ \A k \in KeySet :
            RecordUsed(k) =>
                /\ tracker.cooldowns[k] > 0 => k \notin Elems(get_available(tracker', now'))
                /\ \A j \in KeySet \ {k} : tracker'.last_used[j] = tracker.last_used[j]
        /\ \A k \in KeySet :
            (tracker.cooldowns[k] > 0 /\ tracker'.since[k] >= 0) =>
                (k \in Elems(get_available(tracker', now'))
                    <=> tracker'.since[k] >= tracker.cooldowns[k])]_vars

\* a key of cooldown 2 was used, two ticks passed without another use, and
\* get_available returned it again, while the other key, used later, is out
C12_Witness ==
    /\ tracker.made
    /\ tracker.op = <<"get_available">>
    /\ tracker.cooldowns["a"] = 2 /\ tracker.since["a"] = 2
    /\ tracker.cooldowns["b"] = 2 /\ tracker.since["b"] = 1
    /\ tracker.out = <<"a">>

----------------------------------------------------------------------------
(* Rune solving: Notifier._main's rune check and Bot._solve_rune.           *)

\* `if attempts > 9`
GiveUpAfter == 9

\* `if attempts > 20`
AbortAfter == 20

\* `for i in range(3)`, `for _ in range(3)`
Rounds == 3

\* what predict_from_frame does: it raises (transport error, status other
\* than 200), or returns no arrows, a list of another length, or four arrows
SolverReplies == {"error", "empty", "short", "four"}

\* Bot._get_next_failed_image_number: one more than the greatest N of the
\* files image_N.png in the folder, 1 if there is none
get_next_failed_image_number(stored) ==
    IF stored = {} THEN 1 ELSE (CHOOSE n \in stored : \A m \in stored : m <= n) + 1

\* Bot._save_failed_detection: the numbers in the folder afterwards
save_failed_detection(stored) == stored \cup {get_next_failed_image_number(stored)}

\* `if attempts % 3 == 0: utils.enter_cash_shop(); utils.exit_cash_shop()`
Escalate(attempts) == attempts % 3 = 0

\* the force-clear taken one attempt early
ForceClear_early(attempts) == attempts >= GiveUpAfter

\* `if attempts > 9: self.rune_active = False`
ForceClear(attempts) == attempts > GiveUpAfter

\* the abort taken one attempt early
Abort_early(attempts) == attempts >= AbortAfter

\* `if attempts > 20: os.system('taskkill ...')`
Abort(attempts) == attempts > AbortAfter

\* notifier.distance_to_rune: infinity for what is not a Point
Infinity == 1000

Abs(x) == IF x < 0 THEN -x ELSE x

distance_to_rune(i, pos) == IF sequence[i].id = "*" THEN Abs(location(i) - pos) ELSE Infinity

\* np.argmin(distances): the first position of the least distance
argmin(pos) ==
    Min({i \in Positions(sequence) :
            \A j \in Positions(sequence) : distance_to_rune(i, pos) <= distance_to_rune(j, pos)})

\* Notifier._main, a pass that finds the screen not black:
\* `if config.enabled: frame = config.capture.frame; height, width, _ = frame.shape`
\* and the checks up to `# Check for rune`
NotifierPass ==
    /\ pc # "killed"
    /\ notifier.pc = "loop"
    /\ enabled
    /\ notifier' = IF capture.frame = "None"
                   THEN [notifier EXCEPT !.pc = "crashed", !.fault = "AttributeError"]
                   ELSE [notifier EXCEPT !.pc = "rune"]
    /\ UNCHANGED <<enabled, pauses, rune>>
    /\ UNCHANGED besidesNotifier

\* Notifier._main, `# Check for rune`: a rune is matched on the minimap at pos
DetectRune(pos) ==
    /\ pc # "killed"
    /\ notifier.pc = "rune"
    /\ ~rune.active
    /\ Len(sequence) > 0
    /\ IF sequence[argmin(pos)].id = "*"
       THEN /\ rune' = [rune EXCEPT !.pos = pos, !.closest = location(argmin(pos)),
                                    !.active = TRUE]
            /\ notifier' = [notifier EXCEPT !.pc = "loop"]
       ELSE \* config.routine[index].location on what is not a Point
            /\ rune' = [rune EXCEPT !.pos = pos]
            /\ notifier' = [notifier EXCEPT !.pc = "crashed", !.fault = "AttributeError"]
    /\ UNCHANGED <<enabled, pauses>>
    /\ UNCHANGED besidesNotifier

\* Notifier._main, `# Check for rune`: the rune is active already, or none is
\* matched, or the routine is empty
NoRuneSeen ==
    /\ pc # "killed"
    /\ notifier.pc = "rune"
    /\ notifier' = [notifier EXCEPT !.pc = "loop"]
    /\ UNCHANGED <<enabled, pauses, rune>>
    /\ UNCHANGED besidesNotifier

\* `@utils.run_if_enabled def _solve_rune(self)`
SolveRune ==
    /\ pc = "solve_rune"
    /\ pc' = IF enabled THEN "navigate" ELSE "execute"
    /\ UNCHANGED <<sequence, labels, index, enabled, element, fault, visits, actedOn,
                   steps, pauses, edits, lastOp>>
    /\ UNCHANGED others

\* _solve_rune up to `for i in range(3)`: move and adjust to the rune, press Interact
Navigate ==
    /\ pc = "navigate"
    /\ rune' = [rune EXCEPT !.i = 0, !.j = 0, !.solution_found = FALSE,
                            !.frame = "None", !.reply = "none", !.escalated = FALSE]
    /\ pc' = "round"
    /\ UNCHANGED <<sequence, labels, index, enabled, element, fault, visits, actedOn,
                   steps, pauses, edits, lastOp>>
    /\ UNCHANGED <<codec, now, tracker, settings, move, recording, table, rotation, capture, notifier>>

\* one pass of `for i in range(3)` up to the test of the solution
Round ==
    /\ pc = "round"
    /\ IF rune.i = Rounds
       THEN /\ pc' = "finish"
            /\ UNCHANGED <<rune, fault>>
       ELSE IF capture.frame = "None"
       THEN \* predict_from_frame(None): frame.shape raises AttributeError
            /\ rune' = [rune EXCEPT !.frame = "None", !.reply = "error"]
            /\ pc' = "crashed"
            /\ fault' = "AttributeError"
       ELSE \E reply \in SolverReplies :
            /\ rune' = [rune EXCEPT
                    !.frame = capture.frame,
                    !.reply = reply,
                    !.i = IF reply \in {"empty", "short"} THEN @ + 1 ELSE @,
                    !.j = 0]
            /\ pc' = CASE reply = "error" -> "crashed"
                       [] reply = "four" -> "buff"
                       [] OTHER -> "round"
            /\ fault' = IF reply = "error" THEN "Exception" ELSE fault
    /\ UNCHANGED <<sequence, labels, index, enabled, element, visits, actedOn,
                   steps, pauses, edits, lastOp>>
    /\ UNCHANGED <<codec, now, tracker, settings, move, recording, table, rotation, capture, notifier>>

\* one pass of `for _ in range(3)`: the arrows were pressed, the rune buff is
\* looked for in the frame
Buff ==
    /\ pc = "buff"
    /\ IF rune.j = Rounds
       THEN rune' = [rune EXCEPT !.i = @ + 1]
       ELSE \E rune_buff \in BOOLEAN :
            rune' = IF rune_buff
                    THEN [rune EXCEPT !.active = FALSE, !.attempts = 0,
                                      !.solution_found = TRUE, !.gaveUp = FALSE,
                                      !.i = @ + 1]
                    ELSE [rune EXCEPT !.j = @ + 1]
    /\ pc' = IF rune'.i # rune.i THEN "round" ELSE "buff"
    /\ UNCHANGED <<sequence, labels, index, enabled, element, fault, visits, actedOn,
                   steps, pauses, edits, lastOp>>
    /\ UNCHANGED <<codec, now, tracker, settings, move, recording, table, rotation, capture, notifier>>

\* _solve_rune from `if not solution_found and frame is not None` to its end
Finish ==
    /\ pc = "finish"
    /\ LET attempts == rune.attempts + 1
       IN /\ rune' = [rune EXCEPT
                    !.attempts = attempts,
                    !.escalated = Escalate(attempts),
                    !.stored = IF rune.watched /\ ~rune.solution_found
                                              /\ rune.frame # "None"
                               THEN save_failed_detection(@)
                               ELSE @,
                    !.active = IF ForceClear(attempts) THEN FALSE ELSE @,
                    !.gaveUp = IF attempts > GiveUpAfter THEN TRUE ELSE @]
          /\ pc' = IF Abort(attempts) THEN "killed" ELSE "execute"
    /\ UNCHANGED <<sequence, labels, index, enabled, element, fault, visits, actedOn,
                   steps, pauses, edits, lastOp>>
    /\ UNCHANGED <<codec, now, tracker, settings, move, recording, table, rotation, capture, notifier>>

\* the routines that are run while runes appear
RunePrograms ==
    {<<Point(1, FALSE)>>,
     <<Label("a"), Point(1, FALSE), Jump("a", 1, FALSE)>>}

InitRune ==
    /\ LoadedRoutine(RunePrograms)
    /\ codec = [stage |-> "idle"]
    /\ now = 0
    /\ tracker = NoTracker
    /\ settings = Defaults
    /\ move = NoMove
    /\ table = NoTable
    /\ rotation = NoRotation
    /\ recording = FALSE
    /\ rune = NoRune
    /\ capture = Published(1)
    /\ notifier = NoNotifier

NextRune ==
    \/ Next
    \/ NotifierPass
    \/ \E pos \in Positions(sequence) : DetectRune(pos)
    \/ NoRuneSeen
    \/ SolveRune
    \/ Navigate
    \/ Round
    \/ Buff
    \/ Finish

SpecRune == InitRune /\ [][NextRune]_vars

\* the step on which _solve_rune returns or kills the process
AttemptEnds == pc = "finish" /\ pc' # "finish"

\* C13 as stated: the attempt that takes the counter to 9 without a solve
\* ends with rune_active cleared
C13_ForceClearAtNine ==
    [][(AttemptEnds /\ rune'.attempts = 9 /\ ~rune.solution_found)
        => ~rune'.active]_vars

\* C13, amended: an attempt ends with rune_active cleared when it has taken
\* the counter above 9, so first at 10; an attempt that leaves the counter at
\* 9 or below leaves rune_active as it was
C13_ForceClearAboveNine ==
    [][AttemptEnds =>
        /\ rune'.attempts > 9 => ~rune'.active
        /\ rune'.attempts <= 9 => rune'.active = rune.active]_vars

\* the tenth attempt in a row without a solve has just ended: the rune was
\* still active when it began, and is not now
C13_Witness ==
    /\ pc = "execute"
    /\ rune.attempts = 10
    /\ ~rune.solution_found
    /\ rune.reply \in {"empty", "short", "four"}
    /\ rune.gaveUp
    /\ ~rune.active

\* C14: the process is killed exactly when the counter has gone above 20,
\* which is at 21, and the counter never goes further
C14_AbortAtTwentyOne ==
    /\ pc = "killed" <=> rune.attempts = 21
    /\ rune.attempts <= 21

\* the process was killed at 21 attempts, after rune_active had been
\* force-cleared on the way and the rune had been detected again
C14_Witness ==
    /\ pc = "killed"
    /\ rune.attempts = 21
    /\ rune.gaveUp
    /\ ~rune.solution_found

\* C19: a request to the solver that fails ends the round like one that
\* returned no arrows: nothing is raised and the next round follows
C19_SolverFailureIsFailedRound ==
    [][(pc = "round" /\ rune'.reply = "error")
        => /\ fault' = "none"
           /\ pc' = "round"
           /\ rune'.i = rune.i + 1]_vars

----------------------------------------------------------------------------
(* The perception loop, Capture._main, and a reader of what it publishes.   *)
(* A frame has two cells, the minimap's corner and the rest; a cell holds   *)
(* the number of the screenshot it was copied from.                         *)

MaxCaptures == 6

\* sct.grab succeeds: `shot = self.sct.grab(self.window)`
Grab ==
    /\ pc # "killed"
    /\ capture.pc = "grab"
    /\ capture.shot < MaxCaptures
    /\ capture' = [capture EXCEPT !.shot = @ + 1, !.pc = "copy1"]
    /\ UNCHANGED besidesCapture

\* sct.grab raises MemoryError or ScreenShotError: screenshot returns None,
\* `self.frame = self.screenshot()`, `if self.frame is None: continue`
GrabFails ==
    /\ pc # "killed"
    /\ capture.pc = "grab"
    /\ capture' = [capture EXCEPT !.frame = "None"]
    /\ UNCHANGED besidesCapture

\* a copy that waits until the Notifier is out of its alert
Copy1_waits ==
    /\ pc # "killed"
    /\ notifier.pc # "alert"
    /\ capture.pc = "copy1"
    /\ capture' = [capture EXCEPT !.buffer[1] = capture.shot, !.pc = "copy2"]
    /\ UNCHANGED besidesCapture

\* np.copyto(self._frame_buffer, ...), the first part of the buffer
Copy1 ==
    /\ pc # "killed"
    /\ capture.pc = "copy1"
    /\ capture' = [capture EXCEPT !.buffer[1] = capture.shot, !.pc = "copy2"]
    /\ UNCHANGED besidesCapture

\* np.copyto(self._frame_buffer, ...), the rest of the buffer
Copy2 ==
    /\ pc # "killed"
    /\ capture.pc = "copy2"
    /\ capture' = [capture EXCEPT !.buffer[2] = capture.shot, !.pc = "assign"]
    /\ UNCHANGED besidesCapture

\* `return self._frame_buffer`, `self.frame = self.screenshot()`; the first
\* frame calibrates, the later ones go on to the minimap
AssignFrame ==
    /\ pc # "killed"
    /\ capture.pc = "assign"
    /\ capture' = [capture EXCEPT
            !.frame = "buffer",
            !.calibrated = TRUE,
            !.pc = IF capture.calibrated THEN "minimap" ELSE "grab"]
    /\ UNCHANGED besidesCapture

\* `minimap = self.frame[...].copy()`, `self.minimap = {'minimap': minimap, ...}`
PublishMinimap ==
    /\ pc # "killed"
    /\ capture.pc = "minimap"
    /\ capture' = [capture EXCEPT !.minimap = capture.buffer[1], !.pc = "grab"]
    /\ UNCHANGED besidesCapture

\* a reader's `frame = config.capture.frame`, at the start of one of its passes
ReadFrame ==
    /\ pc # "killed"
    /\ capture' = [capture EXCEPT !.held = capture.frame, !.heldMinimap = 0]
    /\ UNCHANGED besidesCapture

\* the reader's `minimap = config.capture.minimap['minimap']` that follows
ReadMinimap ==
    /\ pc # "killed"
    /\ capture.held # "None"
    /\ capture.heldMinimap = 0
    /\ capture.minimap # 0
    /\ capture' = [capture EXCEPT !.heldMinimap = capture.minimap]
    /\ UNCHANGED besidesCapture

NextCapture ==
    \/ Grab
    \/ GrabFails
    \/ Copy1
    \/ Copy2
    \/ AssignFrame
    \/ PublishMinimap
    \/ ReadFrame
    \/ ReadMinimap

InitCapture ==
    /\ NoRoutine
    /\ codec = [stage |-> "idle"]
    /\ Quiet

SpecCapture == InitCapture /\ [][NextCapture]_vars

\* the frame a reader holds, as the reader finds it now
HeldFrame == IF capture.held = "buffer" THEN capture.buffer ELSE << >>

\* C15: the frame a reader holds is all of one screenshot, and the minimap
\* it took with it is of that same screenshot
C15_SnapshotNeverTorn ==
    capture.held = "buffer" =>
        /\ HeldFrame[1] = HeldFrame[2]
        /\ capture.heldMinimap # 0 => capture.heldMinimap = HeldFrame[1]

----------------------------------------------------------------------------
(* The hazard monitor's alert, Notifier._alert.                             *)

\* Notifier._main, a pass that finds the screen black: `time.sleep(40)`
BlackScreen ==
    /\ pc # "killed"
    /\ notifier.pc = "loop"
    /\ enabled
    /\ capture.frame # "None"
    /\ notifier' = [notifier EXCEPT !.pc = "recheck"]
    /\ UNCHANGED <<enabled, pauses, rune>>
    /\ UNCHANGED besidesNotifier

\* the second look after the sleep: the screen is no longer black
Recovered ==
    /\ pc # "killed"
    /\ notifier.pc = "recheck"
    /\ notifier' = IF capture.frame = "None"
                   THEN [notifier EXCEPT !.pc = "crashed", !.fault = "AttributeError"]
                   ELSE [notifier EXCEPT !.pc = "rune"]
    /\ UNCHANGED <<enabled, pauses, rune>>
    /\ UNCHANGED besidesNotifier

\* _alert started by mistake with the routine rewound
AlertStart_rewinds ==
    /\ pc # "killed"
    /\ notifier.pc = "recheck"
    /\ capture.frame # "None"
    /\ recording => pauses < MaxPauses
    /\ enabled' = FALSE
    /\ index' = 0
    /\ pauses' = IF recording THEN pauses + 1 ELSE pauses
    /\ notifier' = [notifier EXCEPT !.pc = "alert", !.listener = FALSE, !.playing = TRUE]
    /\ UNCHANGED <<sequence, labels, pc, element, fault, visits, actedOn, steps, edits,
                   lastOp, codec, now, tracker, settings, move, recording, table, rotation, capture, rune>>

\* the second look finds the screen still black: `self._alert('siren')` up to
\* its wait for the Start/stop key
AlertStart ==
    /\ pc # "killed"
    /\ notifier.pc = "recheck"
    /\ capture.frame # "None"
    /\ recording => pauses < MaxPauses
    /\ enabled' = FALSE
    /\ pauses' = IF recording THEN pauses + 1 ELSE pauses
    /\ notifier' = [notifier EXCEPT !.pc = "alert", !.listener = FALSE, !.playing = TRUE]
    /\ UNCHANGED rune
    /\ UNCHANGED besidesNotifier

\* the user holds the Start/stop key: `while not kb.is_pressed(...)` ends,
\* `self.mixer.stop()`, `time.sleep(2)`
Acknowledge ==
    /\ pc # "killed"
    /\ notifier.pc = "alert"
    /\ notifier' = [notifier EXCEPT !.pc = "silenced", !.playing = FALSE]
    /\ UNCHANGED <<enabled, pauses, rune>>
    /\ UNCHANGED besidesNotifier

\* `config.listener.enabled = True`, and _alert returns into the pass
AlertEnd ==
    /\ pc # "killed"
    /\ notifier.pc = "silenced"
    /\ notifier' = [notifier EXCEPT !.pc = "rune", !.listener = TRUE]
    /\ UNCHANGED <<enabled, pauses, rune>>
    /\ UNCHANGED besidesNotifier

\* the steps of the hazard monitor
NotifierNext ==
    \/ NotifierPass
    \/ \E pos \in Positions(sequence) : DetectRune(pos)
    \/ NoRuneSeen
    \/ BlackScreen
    \/ Recovered
    \/ AlertStart
    \/ Acknowledge
    \/ AlertEnd

\* the steps of the perception loop
CaptureNext ==
    \/ Grab
    \/ GrabFails
    \/ Copy1
    \/ Copy2
    \/ AssignFrame
    \/ PublishMinimap

\* the steps of Bot._solve_rune
SolveNext ==
    \/ SolveRune
    \/ Navigate
    \/ Round
    \/ Buff
    \/ Finish

\* the routine that runs while the three loops run
MonitorPrograms == {<<Label("a"), Point(1, FALSE), Jump("a", 1, FALSE)>>}

InitMonitor ==
    /\ LoadedRoutine(MonitorPrograms)
    /\ codec = [stage |-> "idle"]
    /\ now = 0
    /\ tracker = NoTracker
    /\ settings = Defaults
    /\ move = NoMove
    /\ table = NoTable
    /\ rotation = NoRotation
    /\ recording = FALSE
    /\ rune = NoRune
    /\ capture = Published(MaxCaptures - 1)
    /\ notifier = NoNotifier

\* the three loops, with the rune showing at the first position of the
\* routine, and the Start/stop key, which the listener takes for a resume
NextMonitor ==
    \/ LoopNext
    \/ SolveNext
    \/ Resume
    \/ NotifierPass
    \/ DetectRune(1)
    \/ NoRuneSeen
    \/ BlackScreen
    \/ Recovered
    \/ AlertStart
    \/ Acknowledge
    \/ AlertEnd
    \/ CaptureNext

SpecMonitor == InitMonitor /\ [][NextMonitor]_vars

\* C16: when the alert starts config.enabled is false and the siren plays;
\* config.enabled stays false while the hazard monitor waits for the key; when
\* _alert returns the siren is off and config.enabled is true again
C16_AlertProtocol ==
    [][/\ (notifier.pc = "recheck" /\ notifier'.pc = "alert")
            => (~enabled' /\ notifier'.playing)
       /\ notifier'.pc = "alert" => ~enabled'
       /\ (notifier.pc = "silenced" /\ notifier'.pc # "silenced")
            => (~notifier'.playing /\ enabled')]_vars

\* the part of C16 the code keeps: the start of the alert and the wait
C16_AlertHoldsTheLoop ==
    [][/\ (notifier.pc = "recheck" /\ notifier'.pc = "alert")
            => (~enabled' /\ notifier'.playing)
       /\ notifier'.pc = "alert" => ~enabled'
       /\ (notifier.pc = "silenced" /\ notifier'.pc # "silenced")
            => ~notifier'.playing]_vars

----------------------------------------------------------------------------
(* The Move command (src/routine/components.py), which Point.main executes *)
(* when its counter is 0.  Key injection (key_down, key_up, press) and the  *)
(* step function of a command book are outside the program; the model      *)
(* keeps the set of the direction keys that are down, and records every    *)
(* call that begins while config.enabled is false.                         *)

MaxMoveSteps == 2

\* the most points of a path of config.layout.shortest_path
MaxPath == 2

\* key_down / press / step: the call begins; it is recorded when it begins
\* while config.enabled is false
InjectInput(late, what) == IF enabled THEN late ELSE Append(late, what)

\* `move(*self.location).execute()` in Point.main: Move.__init__ and, if
\* enabled, the first lines of Move.main
MoveExecute(max_steps) ==
    /\ pc = "main"
    /\ Cur.id = "*"
    /\ PointActs(Cur)
    /\ move.pc = "idle"
    /\ \E points \in 1..MaxPath :
        move' = IF enabled
                THEN [move EXCEPT !.pc = "while", !.counter = max_steps,
                                  !.max_steps = max_steps, !.points = points,
                                  !.toggle = TRUE, !.prev_direction = ""]
                ELSE [move EXCEPT !.pc = "done"]
    /\ UNCHANGED <<routineVars, codec, now, tracker, settings, recording, table, rotation, rune,
                   capture, notifier>>

\* `while config.enabled and counter > 0 and local_error > ... and
\* global_error > ...:` and the test of d_x or d_y that follows
While(far, off) ==
    /\ move.pc = "while"
    /\ move' = IF enabled /\ move.counter > 0 /\ far
               THEN IF off
                    THEN [move EXCEPT !.pc = "direction"]
                    ELSE [move EXCEPT !.toggle = ~@]
               ELSE [move EXCEPT !.pc = "release"]
    /\ UNCHANGED <<routineVars, codec, now, tracker, settings, recording, table, rotation, rune,
                   capture, notifier>>

\* the keys of the branch of the toggle
Directions == IF move.toggle THEN {"left", "right"} ELSE {"up", "down"}

\* key_down(key): the key is down from now on
key_down(held, key) == held \cup {key}

\* key_up(key): the key is no longer down
key_up(held, key) == held \ {key}

\* Move._new_direction up to its test: `key_down(new)`, then
\* `if self.prev_direction and self.prev_direction != new:`
new_direction(m, key, after) ==
    IF m.prev_direction # "" /\ m.prev_direction # key
    THEN [m EXCEPT !.late = InjectInput(@, "key_down"),
                   !.held = key_down(@, key),
                   !.new = key, !.after = after, !.pc = "key_up"]
    ELSE [m EXCEPT !.late = InjectInput(@, "key_down"),
                   !.held = key_down(@, key),
                   !.prev_direction = key,
                   !.pc = after]

\* self._new_direction(key), or key_up(self.prev_direction) for 'up'; then
\* the draw of random.random() < 0.3 in the horizontal branch
NewDirection(key, jump) ==
    /\ move.pc = "direction"
    /\ key \in Directions
    /\ jump => move.toggle
    /\ move' = IF key = "up"
               THEN [move EXCEPT !.held = key_up(@, move.prev_direction),
                                 !.prev_direction = "", !.pc = "step"]
               ELSE new_direction(move, key, IF jump THEN "jump" ELSE "step")
    /\ UNCHANGED <<routineVars, codec, now, tracker, settings, recording, table, rotation, rune,
                   capture, notifier>>

\* the rest of Move._new_direction: `key_up(self.prev_direction)`,
\* `self.prev_direction = new`
KeyUp ==
    /\ move.pc = "key_up"
    /\ move' = [move EXCEPT !.held = key_up(@, move.prev_direction),
                            !.prev_direction = move.new,
                            !.new = "", !.after = "", !.pc = move.after]
    /\ UNCHANGED <<routineVars, codec, now, tracker, settings, recording, table, rotation, rune,
                   capture, notifier>>

\* press(jump_key, 1, down_time=0.05, up_time=0.05)
JumpPress ==
    /\ move.pc = "jump"
    /\ move' = [move EXCEPT !.late = InjectInput(@, "press jump"), !.pc = "step"]
    /\ UNCHANGED <<routineVars, codec, now, tracker, settings, recording, table, rotation, rune,
                   capture, notifier>>

\* step(key, point); counter -= 1.  The default step sets config.enabled
\* to False, the step of a command book moves the player
StepCall ==
    /\ move.pc = "step"
    /\ move' = [move EXCEPT
            !.late = InjectInput(@, "step"),
            !.counter = @ - 1,
            !.pc = "skill"]
    /\ enabled' = IF move.book = "default" THEN FALSE ELSE enabled
    /\ UNCHANGED <<sequence, labels, index, pc, element, fault, visits, actedOn,
                   steps, pauses, edits, lastOp>>
    /\ UNCHANGED <<codec, now, tracker, settings, recording, table, rotation, rune, capture,
                   notifier>>

\* SKILL_COOLDOWNS of a module: a dict object and what it holds
Table(id, cooldowns) == [id |-> id, cooldowns |-> cooldowns]

\* `cooldowns is None`, negated: the module has SKILL_COOLDOWNS
HasTable(tab) == "cooldowns" \in DOMAIN tab

\* the tables of the command books at hand
Tables == {NoTable} \cup {Table(1, cooldowns) : cooldowns \in Cooldowns}

\* a tracker that forgets what it has each time it is looked up
scheduler_fresh(t, tab) == [CooldownTracker(tab.cooldowns) EXCEPT !.ref = tab.id]

\* the tracker that the lookup of config.bot.cooldown_tracker ends with:
\* the one at hand if its _cooldowns_ref is this table, else a new one
\* `tracker = CooldownTracker(cooldowns); tracker._cooldowns_ref = cooldowns`
scheduler(t, tab) ==
    IF t.made /\ t.ref = tab.id
    THEN t
    ELSE [CooldownTracker(tab.cooldowns) EXCEPT !.ref = tab.id]

\* the keys off cooldown, those without a cooldown included
available_unfiltered(t, time) ==
    IF t.cooldowns = << >>
    THEN << >>
    ELSE get_available(t, time)

\* the skills with a cooldown that are off cooldown
available(t, time) ==
    IF t.cooldowns = << >>
    THEN << >>
    ELSE SelectSeq(get_available(t, time), LAMBDA k : t.cooldowns[k] > 0)

\* time.sleep(d) and the keys held during a press, seen from the tracker
Elapse(t, d) ==
    IF t.made
    THEN [t EXCEPT
            !.since = [k \in DOMAIN @ |-> IF @[k] < 0 THEN @[k] ELSE @[k] + d],
            !.op = <<"tick">>]
    ELSE t

\* a press that is not recorded
used_unrecorded(t, skill_id, time) == t

\* `press(actual_key, press_count, ...); tracker.record_used(skill_id)`:
\* the tracker afterwards
used(t, skill_id, time) ==
    [t EXCEPT
        !.last_used = record_used(t, skill_id, time),
        !.since = [@ EXCEPT ![skill_id] = 0],
        !.op = <<"record_used", skill_id>>]

\* _try_skill_during_move(); toggle = not toggle.  The press takes 0.1 s,
\* the sleep after record_used 0.05 s
TrySkill ==
    /\ move.pc = "skill"
    /\ IF ~HasTable(table)
       THEN /\ move' = [move EXCEPT !.fired = "", !.toggle = ~@, !.pc = "while"]
            /\ UNCHANGED <<now, tracker>>
       ELSE IF available(scheduler(tracker, table), now) = << >>
       THEN /\ move' = [move EXCEPT !.fired = "", !.toggle = ~@, !.pc = "while"]
            /\ tracker' = scheduler(tracker, table)
            /\ UNCHANGED now
       ELSE \E skill_id \in Elems(available(scheduler(tracker, table), now)) :
            /\ move' = [move EXCEPT
                    !.late = InjectInput(@, "press skill"),
                    !.fired = skill_id,
                    !.toggle = ~@,
                    !.pc = "while"]
            /\ tracker' = Elapse(used(Elapse(scheduler(tracker, table), 2),
                                       skill_id, now + 2), 1)
            /\ now' = now + 3
    /\ UNCHANGED <<routineVars, codec, settings, recording, table, rotation,
                   rune, capture, notifier>>

\* `if self.prev_direction: key_up(self.prev_direction)`, the end of a point
\* of the path; then the next point, `toggle = True`,
\* `self.prev_direction = ''`, or the return of Move.main
Release ==
    /\ move.pc = "release"
    /\ move' = IF move.points > 1
               THEN [move EXCEPT !.held = key_up(@, move.prev_direction),
                                 !.points = @ - 1, !.toggle = TRUE,
                                 !.prev_direction = "", !.pc = "while"]
               ELSE [move EXCEPT !.held = key_up(@, move.prev_direction),
                                 !.points = 0, !.pc = "done"]
    /\ UNCHANGED <<routineVars, codec, now, tracker, settings, recording, table, rotation, rune,
                   capture, notifier>>

\* Bot._main has entered Point.main of the routine's one Point
InitMove ==
    /\ sequence = Load(<<Point(1, FALSE)>>)
    /\ labels = LabelTable(<<Point(1, FALSE)>>)
    /\ index = 0
    /\ enabled = TRUE
    /\ pc = "main"
    /\ element = 1
    /\ fault = "none"
    /\ visits = <<0>>
    /\ actedOn = <<{}>>
    /\ steps = 0
    /\ pauses = 0
    /\ edits = 0
    /\ lastOp = <<"load", 0>>
    /\ codec = [stage |-> "idle"]
    /\ now = Epoch
    /\ tracker = NoTracker
    /\ settings = Defaults
    /\ \E book \in {"default", "loaded"} : move = [NoMove EXCEPT !.book = book]
    /\ table \in Tables
    /\ rotation = NoRotation
    /\ recording = FALSE
    /\ rune = NoRune
    /\ capture = Published(1)
    /\ notifier = NoNotifier

NextMove ==
    \/ \E max_steps \in 0..MaxMoveSteps : MoveExecute(max_steps)
    \/ \E far \in BOOLEAN, off \in BOOLEAN : While(far, off)
    \/ \E key \in {"left", "right", "up", "down"}, jump \in BOOLEAN :
            NewDirection(key, jump)
    \/ KeyUp
    \/ JumpPress
    \/ StepCall
    \/ TrySkill
    \/ Release
    \/ Tick
    \/ Pause

SpecMove == InitMove /\ [][NextMove]_vars

\* C20: once config.enabled is false, Move.main begins at most the one call
\* that its last check of the flag let through
C20_PauseWithinOneStep == Len(move.late) <= 1

\* the part of C20 that holds: the loop of Move.main exits at its next check
\* of the flag
C20_LoopExitsAtNextCheck ==
    [][(move.pc = "while" /\ ~enabled /\ move' # move) => move'.pc = "release"]_vars

----------------------------------------------------------------------------
(* The cursor of the decision loop.                                        *)

\* the cursor is on an element of the routine
InRange == index \in 0..(Len(sequence) - 1)

\* the pass of the routine over its elements after an edit: the indices of
\* the Labels, the label table, and Jump.bind on every Jump
BindingPass ==
    /\ lastOp[1] = "update"
    /\ labels' = LabelTable(sequence)
    /\ sequence' = BindFrom(SetIndices(sequence), LabelTable(sequence), 1)
    /\ lastOp' = <<"binding pass", lastOp[2]>>
    /\ UNCHANGED <<index, enabled, pc, element, fault, visits, actedOn, steps,
                   pauses, edits>>
    /\ UNCHANGED others

\* the routines that are edited under the decision loop
RelabelPrograms ==
    {<<Label("a"), Point(1, FALSE), Jump("a", 1, FALSE)>>,
     <<Point(1, FALSE), Label("a"), Jump("a", 2, FALSE)>>}

InitRelabel == Loaded(RelabelPrograms)

NextRelabel ==
    \/ LoopNext
    \/ \E i \in Positions(sequence), a \in Arguments : UpdateWith(i, a)
    \/ BindingPass

SpecRelabel == InitRelabel /\ [][NextRelabel]_vars

\* C21: with a routine that is not empty the cursor is always on one of its
\* elements, and a step after an element that took no branch moves it from
\* i to (i + 1) mod length; with an empty routine Bot._main evaluates
\* nothing and only polls
C21_CursorInRange ==
    /\ [](Len(sequence) > 0 => InRange)
    /\ [](Len(sequence) = 0 => (pc = "loop" /\ element = 0 /\ index = 0))
    /\ [][(Step /\ enabled /\ index = element - 1)
            => index' = element % Len(sequence)]_vars

\* the Label that the table holds for the name the Jump e asks for
Resolved(e) == IF e.label \in DOMAIN labels THEN labels[e.label] ELSE NoLink

\* C22: after a binding pass every Jump is linked to the Label that the
\* table holds for its label name, and to none if the table has no such
\* name, also when it was bound before to a Label that was renamed since
C22_BindingPassResolves ==
    lastOp[1] = "binding pass" =>
        \A i \in Positions(sequence) :
            sequence[i].id = ">" => sequence[i].link = Resolved(sequence[i])

\* the Jumps whose link is the Label at position l
LinkedTo(l) ==
    {j \in Positions(sequence) : sequence[j].id = ">" /\ sequence[j].link = l}

\* C23: whatever binds and updates were made, the links of every Label are
\* exactly the Jumps whose link is that Label
C23_BackReferencesExact ==
    \A l \in Positions(sequence) :
        sequence[l].id = "@" => sequence[l].links = LinkedTo(l)

----------------------------------------------------------------------------
(* SkillRotation (src/routine/components.py), which Point.main executes    *)
(* after Move when settings.skill_rotation_mode is set.  Time is counted   *)
(* in ticks of 0.05 s, the period of the polls; a statement takes no time, *)
(* a sleep or a press takes the ticks it asks for.  utils.rand_float draws *)
(* from [start, end) and asserts start < end; the draws are the ticks in   *)
(* that interval.                                                          *)

MaxDuration == 21

\* 0.05 s, 0.2 s, 0.3 s, 1.0 s, 3.0 s and 5.0 s in ticks
Tiny == 1
Short == 4
Burst == 6
Second == 20
Longest == 60
Cap == 100

\* min(a, b)
min(a, b) == IF a < b THEN a ELSE b

\* `cooldowns = {}` when the module has no SKILL_COOLDOWNS: the tracker over
\* a dict of its own, which no later lookup holds
Untabled == [CooldownTracker(<< >>) EXCEPT !.ref = -1]

\* lines 463-471 of SkillRotation.main: the tracker it goes on with
lookup(t, tab) == IF HasTable(tab) THEN scheduler(t, tab) ELSE Untabled

\* the bounds of the draw of _main_attack_phase, as <<start, end>>
draw(max_sec) ==
    IF max_sec >= Second THEN <<Second, min(Longest, max_sec)>>
    ELSE IF max_sec > Short THEN <<Short, max_sec>>
    ELSE <<Tiny, max_sec>>

\* utils.rand_float(start, end): the values it can return; none when the
\* assertion start < end fails
rand_float(start, end) == IF start < end THEN start..(end - 1) ELSE {}

\* `SkillRotation(duration=...).execute()` in Point.main, and lines 462-477
\* of SkillRotation.main if config.enabled
RotationExecute(duration) ==
    /\ pc = "main"
    /\ move.pc = "done"
    /\ rotation.pc = "idle"
    /\ IF enabled
       THEN /\ rotation' = [rotation EXCEPT !.pc = "while", !.end = now + duration]
            /\ tracker' = lookup(tracker, table)
       ELSE /\ rotation' = [rotation EXCEPT !.pc = "done"]
            /\ UNCHANGED tracker
    /\ UNCHANGED <<routineVars, codec, now, settings, move, recording, table,
                   rune, capture, notifier>>

\* `while config.enabled and time.time() < end:` and the call of
\* _main_attack_phase with max_sec = min(5.0, max(0.2, remaining))
RotationWhile ==
    /\ rotation.pc = "while"
    /\ rotation' = IF enabled /\ now < rotation.end
                   THEN [rotation EXCEPT
                            !.pc = "choose",
                            !.site = "phase",
                            !.budget = rotation.end - now,
                            !.max_sec = min(Cap, Max(Short, rotation.end - now))]
                   ELSE [rotation EXCEPT !.pc = "done"]
    /\ UNCHANGED <<routineVars, codec, now, tracker, settings, move, recording,
                   table, rune, capture, notifier>>

\* lines 443-450 of _main_attack_phase: the duration of the hold.  A failed
\* assertion of rand_float leaves SkillRotation.main and Bot._main
ChooseHold ==
    /\ rotation.pc = "choose"
    /\ IF rotation.max_sec <= Tiny
       THEN /\ rotation' = [rotation EXCEPT
                    !.pc = IF rotation.site = "phase" THEN "check" ELSE "requery"]
            /\ UNCHANGED <<pc, fault>>
       ELSE IF rand_float(draw(rotation.max_sec)[1], draw(rotation.max_sec)[2]) = {}
       THEN /\ rotation' = [rotation EXCEPT !.pc = "crashed", !.fault = "AssertionError"]
            /\ pc' = "crashed"
            /\ fault' = "AssertionError"
       ELSE /\ \E duration \in rand_float(draw(rotation.max_sec)[1],
                                          draw(rotation.max_sec)[2]) :
                    rotation' = [rotation EXCEPT !.pc = "down", !.chosen = duration]
            /\ UNCHANGED <<pc, fault>>
    /\ UNCHANGED <<sequence, labels, index, enabled, element, visits, actedOn,
                   steps, pauses, edits, lastOp>>
    /\ UNCHANGED <<codec, now, tracker, settings, move, recording, table,
                   rune, capture, notifier>>

\* key_down(direction); key_down(main_key); end_hold = time.time() + duration
KeyDown(direction) ==
    /\ rotation.pc = "down"
    /\ rotation' = [rotation EXCEPT
            !.pc = "hold",
            !.held = {direction, "main"},
            !.end_hold = now + rotation.chosen]
    /\ UNCHANGED <<routineVars, codec, now, tracker, settings, move, recording,
                   table, rune, capture, notifier>>

\* `while config.enabled and time.time() < end_hold: time.sleep(0.05)`
Hold ==
    /\ rotation.pc = "hold"
    /\ IF enabled /\ now < rotation.end_hold
       THEN /\ now' = now + 1
            /\ tracker' = Elapse(tracker, 1)
            /\ UNCHANGED rotation
       ELSE /\ rotation' = [rotation EXCEPT !.pc = "up"]
            /\ UNCHANGED <<now, tracker>>
    /\ UNCHANGED <<routineVars, codec, settings, move, recording, table,
                   rune, capture, notifier>>

\* a release that lifts the main key only
AttackRelease_main_only ==
    /\ rotation.pc = "up"
    /\ rotation' = [rotation EXCEPT
            !.pc = IF rotation.site = "phase" THEN "check" ELSE "requery",
            !.held = @ \ {"main"},
            !.attacked = TRUE]
    /\ UNCHANGED <<routineVars, codec, now, tracker, settings, move, recording,
                   table, rune, capture, notifier>>

\* key_up(main_key); key_up(direction); time.sleep(0.03): the end of
\* _main_attack_phase
AttackRelease ==
    /\ rotation.pc = "up"
    /\ rotation' = [rotation EXCEPT
            !.pc = IF rotation.site = "phase" THEN "check" ELSE "requery",
            !.held = {},
            !.attacked = TRUE]
    /\ UNCHANGED <<routineVars, codec, now, tracker, settings, move, recording,
                   table, rune, capture, notifier>>

\* lines 481-483: `if not config.enabled or time.time() >= end: break`, then
\* the first query of the skills off cooldown
Check ==
    /\ rotation.pc = "check"
    /\ rotation' = IF ~enabled \/ now >= rotation.end
                   THEN [rotation EXCEPT !.pc = "done"]
                   ELSE [rotation EXCEPT
                            !.pc = "wait",
                            !.available = available(tracker, now)]
    /\ UNCHANGED <<routineVars, codec, now, tracker, settings, move, recording,
                   table, rune, capture, notifier>>

\* lines 484-485 and 487-489: the loop that waits for a skill with bursts of
\* _main_attack_phase(main_key, max_sec=0.3), the second break and the test
\* of `available`
Wait ==
    /\ rotation.pc = "wait"
    /\ rotation' =
            IF enabled /\ now < rotation.end /\ rotation.available = << >>
            THEN [rotation EXCEPT
                    !.pc = "choose",
                    !.site = "burst",
                    !.budget = rotation.end - now,
                    !.max_sec = Burst]
            ELSE IF ~enabled \/ now >= rotation.end
            THEN [rotation EXCEPT !.pc = "done"]
            ELSE IF rotation.available # << >>
            THEN [rotation EXCEPT !.pc = "press"]
            ELSE [rotation EXCEPT !.pc = "sleep"]
    /\ UNCHANGED <<routineVars, codec, now, tracker, settings, move, recording,
                   table, rune, capture, notifier>>

\* line 486: the query after a burst
Requery ==
    /\ rotation.pc = "requery"
    /\ rotation' = [rotation EXCEPT !.pc = "wait", !.available = available(tracker, now)]
    /\ UNCHANGED <<routineVars, codec, now, tracker, settings, move, recording,
                   table, rune, capture, notifier>>

\* lines 490-497: random.choice(available), press(actual_key, press_count,
\* down_time=0.05, up_time=0.05), tracker.record_used(skill_id)
Press ==
    /\ rotation.pc = "press"
    /\ \E skill_id \in Elems(rotation.available) :
        /\ rotation' = [rotation EXCEPT
                !.pc = "sleep",
                !.fired = skill_id,
                !.attacked = FALSE,
                !.late = (now >= rotation.end)]
        /\ tracker' = used(Elapse(tracker, 2), skill_id, now + 2)
    /\ now' = now + 2
    /\ UNCHANGED <<routineVars, codec, settings, move, recording, table,
                   rune, capture, notifier>>

\* line 498: time.sleep(0.05), the end of an iteration
Sleep ==
    /\ rotation.pc = "sleep"
    /\ rotation' = [rotation EXCEPT !.pc = "while"]
    /\ now' = now + 1
    /\ tracker' = Elapse(tracker, 1)
    /\ UNCHANGED <<routineVars, codec, settings, move, recording, table,
                   rune, capture, notifier>>

\* the steps of SkillRotation
Rotate ==
    \/ RotationWhile
    \/ ChooseHold
    \/ \E direction \in {"left", "right"} : KeyDown(direction)
    \/ Hold
    \/ AttackRelease
    \/ Check
    \/ Wait
    \/ Requery
    \/ Press
    \/ Sleep

\* Move has returned and the Point goes on to the rotation
InitRotation ==
    /\ sequence = Load(<<Point(1, FALSE)>>)
    /\ labels = LabelTable(<<Point(1, FALSE)>>)
    /\ index = 0
    /\ enabled = TRUE
    /\ pc = "main"
    /\ element = 1
    /\ fault = "none"
    /\ visits = <<0>>
    /\ actedOn = <<{}>>
    /\ steps = 0
    /\ pauses = 0
    /\ edits = 0
    /\ lastOp = <<"load", 0>>
    /\ codec = [stage |-> "idle"]
    /\ now = Epoch
    /\ tracker = NoTracker
    /\ settings = Defaults
    /\ move = [NoMove EXCEPT !.pc = "done"]
    /\ table \in Tables
    /\ rotation = NoRotation
    /\ recording = FALSE
    /\ rune = NoRune
    /\ capture = Published(1)
    /\ notifier = NoNotifier

NextRotation ==
    \/ \E duration \in 0..MaxDuration : RotationExecute(duration)
    \/ Rotate
    \/ Pause

SpecRotation == InitRotation /\ [][NextRotation]_vars

\* a hold was chosen and has not been released yet
Holding == rotation.pc \in {"down", "hold", "up"}

\* C24: no hold of the rotation, in the attack phase or in a burst that waits
\* for a skill, is chosen longer than the time that remains until `end` at
\* the moment the phase starts, and the choice of the duration never faults.
C24_HoldWithinBudget ==
    /\ rotation.fault = "none"
    /\ Holding => rotation.chosen <= rotation.budget

\* a hold longer than what remained, and the failed assertion of rand_float
C24_Overshoot == Holding /\ rotation.chosen > rotation.budget

C24_Faults == rotation.fault = "AssertionError" /\ rotation.budget = Second

\* a step of line 496-497: a skill is fired
Fires == rotation.pc = "press" /\ rotation'.pc = "sleep"

\* C25: a skill that the rotation fires has a cooldown above 0 and is among
\* the keys that the tracker gives as available at that moment; record_used
\* stamps it in the step that fires it, so before any later query; and an
\* attack phase has run since the firing before.
C25_FiresOnlyAvailableSkills ==
    [][Fires =>
        /\ tracker.cooldowns[rotation'.fired] > 0
        /\ rotation'.fired \in Elems(get_available(tracker, now))
        /\ tracker'.last_used[rotation'.fired] = now'
        /\ tracker'.op = <<"record_used", rotation'.fired>>
        /\ rotation.attacked]_vars

\* a skill has been fired and recorded, a phase has run, the next one is due
C25_Witness ==
    /\ rotation.pc = "press"
    /\ rotation.fired # ""
    /\ rotation.attacked
    /\ tracker.since[rotation.fired] >= tracker.cooldowns[rotation.fired]

\* the main thread goes on running: time advances in the sleeps of Rotate
SpecRotationFair == SpecRotation /\ WF_vars(Rotate)

\* C26: a rotation that has started reaches the end of SkillRotation.main,
\* whatever the duration and the table; it is there only when the time is
\* up or config.enabled is false; and no skill is fired at or after `end`.
C26_RotationTerminates ==
    /\ (rotation.pc = "while") ~> (rotation.pc = "done")
    /\ [](rotation.pc = "done" => (~enabled \/ now >= rotation.end))
    /\ [](~rotation.late)

\* what holds of the end: the rotation returns or the assertion has failed
C26_ReturnsOrFaults ==
    /\ (rotation.pc = "while") ~> (rotation.pc \in {"done", "crashed"})
    /\ [](rotation.pc = "done" => (~enabled \/ now >= rotation.end))
    /\ [](~rotation.late)

\* C27: the keys that _main_attack_phase pressed down (the main attack and a
\* direction) are down only during its hold; when SkillRotation returns,
\* because the time is up or because config.enabled became false during a
\* hold, and in every state outside a hold, none of them is down.
C27_CleanRelease == ~Holding => rotation.held = {}

\* the rotation has returned after a pause that cut a hold short
C27_Witness ==
    /\ rotation.pc = "done"
    /\ ~enabled
    /\ rotation.chosen > 0
    /\ now < rotation.end_hold
    /\ rotation.held = {}

----------------------------------------------------------------------------
(* Move and SkillRotation on the visits of one Point, with the command     *)
(* book loaded anew from the GUI thread in between.                        *)

MaxTables == 2
MaxVisits == 1
MaxShare == 2

\* the tables of the command books: the first key is the main attack
Books == {cooldowns \in Cooldowns : cooldowns[Keys[1]] = 0}

\* Bot.load_commands(file): `self.command_book = CommandBook(file)`; the
\* module of the book has a SKILL_COOLDOWNS of its own
LoadCommands(cooldowns) ==
    /\ table.id < MaxTables
    /\ table' = Table(table.id + 1, cooldowns)
    /\ UNCHANGED <<routineVars, codec, now, tracker, settings, move, recording,
                   rotation, rune, capture, notifier>>

\* Bot._main comes to the Point again
Again ==
    /\ pc = "main"
    /\ rotation.pc = "done"
    /\ visits[element] < MaxVisits
    /\ visits' = [visits EXCEPT ![element] = @ + 1]
    /\ move' = [NoMove EXCEPT !.book = move.book]
    /\ rotation' = NoRotation
    /\ UNCHANGED <<sequence, labels, index, enabled, pc, element, fault, actedOn,
                   steps, pauses, edits, lastOp>>
    /\ UNCHANGED <<codec, now, tracker, settings, recording, table,
                   rune, capture, notifier>>

\* the command book has a step function; the module has a table or none
InitShare ==
    /\ sequence = Load(<<Point(1, FALSE)>>)
    /\ labels = LabelTable(<<Point(1, FALSE)>>)
    /\ index = 0
    /\ enabled = TRUE
    /\ pc = "main"
    /\ element = 1
    /\ fault = "none"
    /\ visits = <<0>>
    /\ actedOn = <<{}>>
    /\ steps = 0
    /\ pauses = 0
    /\ edits = 0
    /\ lastOp = <<"load", 0>>
    /\ codec = [stage |-> "idle"]
    /\ now = Epoch
    /\ tracker = NoTracker
    /\ settings = Defaults
    /\ move = [NoMove EXCEPT !.book = "loaded"]
    /\ table \in {NoTable} \cup {Table(1, cooldowns) : cooldowns \in Books}
    /\ rotation = NoRotation
    /\ recording = FALSE
    /\ rune = NoRune
    /\ capture = Published(1)
    /\ notifier = NoNotifier

NextShare ==
    \/ MoveExecute(1)
    \/ \E far \in BOOLEAN : While(far, TRUE)
    \/ \E key \in {"left", "up"} : NewDirection(key, FALSE)
    \/ StepCall
    \/ TrySkill
    \/ Release
    \/ \E duration \in 0..MaxShare : RotationExecute(duration)
    \/ Rotate
    \/ \E cooldowns \in Books : LoadCommands(cooldowns)
    \/ Again

SpecShare == InitShare /\ [][NextShare]_vars

\* a call of _try_skill_during_move
Tries == move.pc = "skill" /\ move'.pc = "while"

\* the last-use times that a lookup of the tracker for this table finds
remembered(t, tab) == scheduler(t, tab).last_used

\* the one query of the call: the rate-limited skills off cooldown
queried == IF HasTable(table) THEN available(scheduler(tracker, table), now) ELSE << >>

\* C28: a call of _try_skill_during_move looks once at the skills that are
\* rate-limited and off cooldown.  If there is one, it presses exactly one
\* of them and records that one, and no other, as used at that time; if
\* there is none, or the module has no cooldown table, it presses nothing,
\* takes no time and leaves the last-use times as they are.
C28_OpportunisticSkill ==
    [][Tries =>
        IF queried # << >>
        THEN /\ move'.fired \in Elems(queried)
             /\ remembered(tracker', table) =
                    [remembered(tracker, table) EXCEPT ![move'.fired] = now + 2]
        ELSE /\ move'.fired = ""
             /\ now' = now
             /\ (~HasTable(table) => tracker' = tracker)
             /\ (HasTable(table) => remembered(tracker', table) = remembered(tracker, table))]_vars

\* the call has pressed a skill and recorded it, while the other skill of
\* the table was left as it was
C28_Witness ==
    /\ move.pc = "while"
    /\ move.fired # ""
    /\ tracker.last_used[move.fired] = now - 1
    /\ \E k \in KeySet \ {move.fired} : tracker.cooldowns[k] > 0 /\ tracker.last_used[k] = 0

\* the skill that this step fires, by either path; "" if it fires none
firing ==
    IF Fires THEN rotation'.fired
    ELSE IF Tries THEN move'.fired
    ELSE ""

\* the tracker that the step which fires works with
at_hand == IF Tries THEN scheduler(tracker, table) ELSE tracker

\* C29: Move's opportunistic skill and the rotation work with one tracker as
\* long as the cooldown table is the same object: when either of them fires
\* a skill that the tracker has seen fired before, by either of them, at
\* least the cooldown of that skill has passed since; and a tracker is
\* replaced by one that remembers nothing only when the table at hand is
\* not the one it was made for.
C29_SharedScheduler ==
    [][/\ (firing # "" /\ at_hand.since[firing] >= 0)
            => at_hand.since[firing] >= at_hand.cooldowns[firing]
       /\ (tracker.made /\ tracker'.ref # tracker.ref) => tracker.ref # table.id
       /\ (tracker.made /\ tracker'.ref = tracker.ref)
            => \A k \in DOMAIN tracker.last_used :
                    tracker'.last_used[k] # tracker.last_used[k] => firing = k]_vars

\* Move has fired a skill and the rotation of the same visit has fired it
\* again, on the tracker of the table at hand
C29_Witness ==
    /\ rotation.pc = "sleep"
    /\ rotation.fired # ""
    /\ move.fired = rotation.fired
    /\ tracker.ref = table.id
    /\ tracker.cooldowns[rotation.fired] > 1

----------------------------------------------------------------------------
(* The end of an attempt of _solve_rune in which a round found the rune    *)
(* buff (SpecRune).                                                        *)

\* C30: when an attempt in which a round succeeded returns, rune_active is
\* false and the counter of failed attempts is 0, and the attempt neither
\* force-clears nor ends the game.
C30_SuccessResetsCounter ==
    [][(AttemptEnds /\ rune.solution_found) =>
            /\ ~rune'.active
            /\ rune'.attempts = 0
            /\ ~rune'.gaveUp
            /\ pc' # "killed"]_vars

\* what holds instead: the counter is 1 when such an attempt returns
C30_SuccessLeavesOne ==
    [][(AttemptEnds /\ rune.solution_found) =>
            /\ rune'.attempts = 1
            /\ ~rune'.gaveUp
            /\ pc' # "killed"]_vars

\* C31: an attempt makes at most 3 rounds, and once a round has seen the
\* rune buff the attempt asks the solver for nothing more and presses no
\* more arrows: its next step is the end of _solve_rune.
C31_SuccessEndsAttempt ==
    /\ [](rune.i <= Rounds)
    /\ [][(Round /\ rune.solution_found) => pc' = "finish"]_vars

\* what holds of the rounds: there are at most 3 of them in an attempt
C31_AtMostThreeRounds == rune.i <= Rounds

\* a solver request made after the success of an earlier round
C31_RequestAfterSuccess ==
    /\ pc \in {"round", "buff"}
    /\ rune.solution_found
    /\ rune.i < Rounds
    /\ rune.reply = "short"

\* C32: the counter goes up by one at the end of an attempt whose 3 rounds
\* all failed, and at the end of no other; the cash shop is entered and left
\* at the end of exactly the attempts that make the counter a multiple of 3;
\* and after that the loop goes on with the rune still active.
C32_CountsFailuresOnly ==
    [][AttemptEnds =>
        /\ rune'.attempts = IF rune.solution_found THEN rune.attempts ELSE rune.attempts + 1
        /\ rune'.escalated <=> (~rune.solution_found /\ rune'.attempts % 3 = 0)
        /\ rune'.escalated => (pc' = "execute" /\ rune'.active)]_vars

\* what holds: every attempt that ends adds one, solved or not, and the cash
\* shop is visited when the sum is a multiple of 3
C32_CountsEveryAttempt ==
    [][AttemptEnds =>
        /\ rune'.attempts = rune.attempts + 1
        /\ rune'.escalated <=> (rune'.attempts % 3 = 0)]_vars

\* an attempt that solved the rune has been counted
C32_SolvedAndCounted == pc = "execute" /\ rune.solution_found /\ rune.attempts = 1

\* the cash shop was visited and the rune is not active: the twelfth attempt
C32_EscalatedInactive == rune.escalated /\ rune.attempts = 12 /\ rune.gaveUp /\ ~rune.active

----------------------------------------------------------------------------
(* The folder of failed detections over attempts and restarts of the       *)
(* process.  rune.stored is the set of the N of the files image_N.png; the *)
(* folder is followed when rune.watched.                                   *)

MaxEvidence == 4

\* Bot._main comes to the Point of the rune again while the rune is active
Reattempt ==
    /\ pc = "execute"
    /\ rune.watched
    /\ get_next_failed_image_number(rune.stored) <= MaxEvidence
    /\ pc' = "navigate"
    /\ rune' = [rune EXCEPT !.active = TRUE]
    /\ UNCHANGED <<sequence, labels, index, enabled, element, fault, visits, actedOn,
                   steps, pauses, edits, lastOp>>
    /\ UNCHANGED <<codec, now, tracker, settings, move, recording, table, rotation,
                   capture, notifier>>

\* the process is started anew: `attempts = 0` of the module; the folder is
\* as it was left
Restart ==
    /\ pc \in {"execute", "crashed"}
    /\ rune.watched
    /\ get_next_failed_image_number(rune.stored) <= MaxEvidence
    /\ pc' = "navigate"
    /\ fault' = "none"
    /\ rune' = [NoRune EXCEPT !.active = TRUE, !.pos = rune.pos, !.closest = rune.closest,
                              !.watched = TRUE, !.stored = rune.stored]
    /\ UNCHANGED <<sequence, labels, index, enabled, element, visits, actedOn,
                   steps, pauses, edits, lastOp>>
    /\ UNCHANGED <<codec, now, tracker, settings, move, recording, table, rotation,
                   capture, notifier>>

\* an attempt begins; the folder holds what earlier runs left in it
InitEvidence ==
    /\ sequence = Load(<<Point(1, FALSE)>>)
    /\ labels = LabelTable(<<Point(1, FALSE)>>)
    /\ index = 0
    /\ enabled = TRUE
    /\ pc = "navigate"
    /\ element = 1
    /\ fault = "none"
    /\ visits = <<0>>
    /\ actedOn = <<{}>>
    /\ steps = 0
    /\ pauses = 0
    /\ edits = 0
    /\ lastOp = <<"load", 0>>
    /\ codec = [stage |-> "idle"]
    /\ now = 0
    /\ tracker = NoTracker
    /\ settings = Defaults
    /\ move = NoMove
    /\ table = NoTable
    /\ rotation = NoRotation
    /\ recording = FALSE
    /\ \E stored \in SUBSET (1..2) :
            rune = [NoRune EXCEPT !.active = TRUE, !.pos = 1, !.closest = 1,
                                  !.watched = TRUE, !.stored = stored]
    /\ capture = Published(1)
    /\ notifier = NoNotifier

NextEvidence ==
    \/ Navigate
    \/ Round
    \/ Buff
    \/ Finish
    \/ Reattempt
    \/ Restart

SpecEvidence == InitEvidence /\ [][NextEvidence]_vars

\* a round of an attempt ends without the rune buff
RoundFails ==
    \/ Round /\ rune'.i = rune.i + 1
    \/ Buff /\ rune'.i = rune.i + 1 /\ rune.j = Rounds

\* the numbers in the folder are kept and one is added, greater than all
Persists ==
    \E n \in 1..(MaxEvidence + 1) :
        /\ \A m \in rune.stored : m < n
        /\ rune'.stored = rune.stored \cup {n}

\* C33: every round of an attempt that fails puts its frame in the folder
\* under a number greater than every number in it; the numbers of the
\* folder are never given twice and never go down, over attempts and
\* restarts of the process.
C33_EveryFailedRoundPersists ==
    [][/\ RoundFails => Persists
       /\ rune.stored \subseteq rune'.stored]_vars

\* what holds: one frame for an attempt in which no round succeeded, under
\* the greatest number plus one; nothing else changes the folder
C33_FailedAttemptPersists ==
    [][/\ (AttemptEnds /\ ~rune.solution_found) => Persists
       /\ ~(AttemptEnds /\ ~rune.solution_found) => rune'.stored = rune.stored]_vars

\* three rounds have failed since the start and the folder is as it was
C33_RoundsUnsaved ==
    /\ pc = "round"
    /\ rune.i = Rounds
    /\ ~rune.solution_found
    /\ rune.attempts = 0
    /\ rune.stored = {2}

----------------------------------------------------------------------------
(* The detection of a rune by the Notifier over routines with two Points   *)
(* and with none.                                                          *)

DetectPrograms ==
    {<<Label("a"), Jump("a", 1, FALSE)>>,
     <<Point(1, FALSE), Label("a"), Point(1, FALSE), Jump("a", 1, FALSE)>>}

InitDetect ==
    /\ LoadedRoutine(DetectPrograms)
    /\ codec = [stage |-> "idle"]
    /\ now = 0
    /\ tracker = NoTracker
    /\ settings = Defaults
    /\ move = NoMove
    /\ table = NoTable
    /\ rotation = NoRotation
    /\ recording = FALSE
    /\ rune = NoRune
    /\ capture = Published(1)
    /\ notifier = NoNotifier

SpecDetect == InitDetect /\ [][NextRune]_vars

\* the Points of the routine
Waypoints == {i \in Positions(sequence) : sequence[i].id = "*"}

\* the step of the Notifier that sets rune_active
Detects == notifier.pc = "rune" /\ ~rune.active /\ rune'.active

\* rune_closest_pos is the location of a Point that no Point is nearer to
\* the rune than
NearestWaypoint ==
    \E i \in Waypoints :
        /\ rune'.closest = location(i)
        /\ \A j \in Waypoints : Abs(location(i) - rune'.pos) <= Abs(location(j) - rune'.pos)

\* C34: when the Notifier matches a rune, the location it records as the
\* trigger is that of a Point of the routine nearest to the rune, never
\* that of another element, whatever non-empty routine is loaded, one
\* without a Point included; and the detection never ends the Notifier.
C34_NearestWaypointRecorded ==
    /\ [](notifier.pc # "crashed")
    /\ [][Detects => NearestWaypoint]_vars

\* what holds: a detection that sets rune_active records a nearest Point,
\* and the Notifier is ended only by a routine without a Point
C34_NearestWhenRecorded ==
    /\ [](notifier.pc = "crashed" => Waypoints = {})
    /\ [][Detects => NearestWaypoint]_vars

\* the Notifier has matched a rune over a routine without a Point
C34_NoWaypoint ==
    /\ notifier.pc = "crashed"
    /\ notifier.fault = "AttributeError"
    /\ Waypoints = {}
    /\ rune.pos > 0
    /\ ~rune.active

----------------------------------------------------------------------------
(* The three loops while the Notifier is held up (SpecMonitor).            *)

\* the Notifier sleeps: in `time.sleep(40)` before its second look, in the
\* wait of _alert for the Start/stop key, or in the `time.sleep(2)` after it
NotifierSleeps == notifier.pc \in {"recheck", "alert", "silenced"}

\* Bot._main has nothing to execute and polls: `else: time.sleep(0.01)`
IdlePoll == pc = "loop" /\ ~(enabled /\ Len(sequence) > 0)

\* C35: while the Notifier is held up in its alert or its sleeps, the
\* perception loop has a step to take, and the decision loop, unless it has
\* ended, polls or has a step to take: no loop waits for the Notifier, and
\* the three loops are never all without a step.
C35_NotifierBlocksNoLoop ==
    NotifierSleeps =>
        /\ pc # "killed" => ENABLED CaptureNext
        /\ pc \notin {"killed", "crashed"} => (IdlePoll \/ ENABLED (LoopNext \/ SolveNext))

\* the Notifier waits for the key in its alert, the decision loop polls, and
\* the perception loop is in the middle of a screenshot
C35_Witness ==
    /\ notifier.pc = "alert"
    /\ notifier.playing
    /\ IdlePoll
    /\ capture.pc = "copy1"
    /\ capture.shot = MaxCaptures

----------------------------------------------------------------------------
(* The step after a taken Jump (Spec).                                     *)

\* the index of the Label that the Jump of `element` links to
TargetIndex == sequence[sequence[element].link].index

\* Jump.main has just taken the Jump of `element`: its counter was 0 and its
\* link was set on this visit
JumpReturns ==
    /\ pc = "increment"
    /\ sequence[element].id = ">"
    /\ visits[element] \in actedOn[element]

\* the element that was executed is a Jump and the cursor stands on its
\* Label, where only the Jump can have put it
TakenJump ==
    /\ pc = "step"
    /\ sequence[element].id = ">"
    /\ sequence[element].link # NoLink
    /\ index = TargetIndex

\* the cursor is right behind the Label that the Jump of `element` links to
BehindTarget(i) == i = step(TargetIndex, Len(sequence)) /\ i # TargetIndex

\* C36 as stated: a taken Jump leaves the cursor on its Label, and the step
\* that follows advances it, so that the next element evaluated is the one
\* behind the Label, at (link.index + 1) mod length, and not the Label
C36_StepAfterTakenJump ==
    [][/\ (Increment /\ JumpReturns) => (index = TargetIndex /\ index' = index)
       /\ (Step /\ TakenJump) => BehindTarget(index')]_vars

\* C36, amended: if config.enabled is still true when Routine.step runs, the
\* cursor goes behind the Label; if the bot was paused after the Jump moved
\* the cursor, the step leaves the cursor on the Label
C36_StepAfterTakenJumpWhileEnabled ==
    [][/\ (Increment /\ JumpReturns) => (index = TargetIndex /\ index' = index)
       /\ (Step /\ TakenJump) =>
            IF enabled THEN BehindTarget(index') ELSE index' = TargetIndex]_vars

\* the step after a taken Jump has put the cursor behind the Label, which is
\* not where the step would have gone from the Jump
C36_Witness ==
    /\ pc = "loop"
    /\ enabled
    /\ element > 0
    /\ sequence[element].id = ">"
    /\ sequence[element].link # NoLink
    /\ BehindTarget(index)
    /\ index # step(element - 1, Len(sequence))

----------------------------------------------------------------------------
(* The frame the other loops read once the first frame was published.      *)

\* C37: once the perception loop has published its first frame, the frame
\* that the decision loop and the hazard monitor read is never None: a
\* screenshot that failed does not put None in the place of the last frame
C37_FrameNeverNone == capture.calibrated => capture.frame # "None"

\* what follows from a failed screenshot: the hazard monitor took None for a
\* frame and ended with the AttributeError of `frame.shape`
C37_ReaderFaults ==
    /\ capture.calibrated
    /\ capture.frame = "None"
    /\ notifier.pc = "crashed"
    /\ notifier.fault = "AttributeError"

----------------------------------------------------------------------------
(* The direction keys that a Move holds down.                              *)

\* Move.main is being executed
Moving == move.pc \notin {"idle", "done"}

\* the movement steps that the Move has performed
Performed == move.max_steps - move.counter

\* C38: a Move performs at most max_steps steps over all the points of its
\* path; while it runs at most one direction key is down and 'up' is never
\* down; when it has returned no direction key is down, also when
\* config.enabled became false on the way or the default step disabled it
C38_OneKeyHeldAndReleased ==
    /\ Performed \in 0..move.max_steps
    /\ Cardinality(move.held) <= 1
    /\ "up" \notin move.held
    /\ ~Moving => move.held = {}

\* the parts of C38 that hold: the bound on the steps, 'up' is never down,
\* nothing is down after the return; and never more than the new key and the
\* previous one are down
C38_BoundedAndReleased ==
    /\ Performed \in 0..move.max_steps
    /\ Cardinality(move.held) <= 2
    /\ "up" \notin move.held
    /\ ~Moving => move.held = {}

\* Move._new_direction has pressed the new key and has not yet released the
\* previous one
C38_TwoKeysHeld ==
    /\ move.pc = "key_up"
    /\ move.held = {move.prev_direction, move.new}
    /\ Cardinality(move.held) = 2

\* the Move has returned with nothing down after the default step disabled
\* the bot on the second point of its path
C38_ReturnedDisabled ==
    /\ move.pc = "done"
    /\ ~enabled
    /\ move.book = "default"
    /\ Performed = 1
    /\ move.held = {}

----------------------------------------------------------------------------
(* The rune fields as the Notifier writes them one by one and as the Bot   *)
(* reads them: rune_pos, rune_closest_pos, rune_active.                    *)

\* a detection that raises rune_active together with rune_pos
WriteRunePos_flag_first(pos) ==
    /\ pc # "killed"
    /\ notifier.pc = "rune"
    /\ ~rune.active
    /\ Len(sequence) > 0
    /\ rune' = [rune EXCEPT !.pos = pos, !.active = TRUE]
    /\ notifier' = [notifier EXCEPT !.pc = "closest"]
    /\ UNCHANGED <<enabled, pauses>>
    /\ UNCHANGED besidesNotifier

\* `if not config.bot.rune_active:`, `if matches and config.routine.sequence:`,
\* `config.bot.rune_pos = utils.convert_to_relative(abs_rune_pos, minimap)`
WriteRunePos(pos) ==
    /\ pc # "killed"
    /\ notifier.pc = "rune"
    /\ ~rune.active
    /\ Len(sequence) > 0
    /\ rune' = [rune EXCEPT !.pos = pos]
    /\ notifier' = [notifier EXCEPT !.pc = "closest"]
    /\ UNCHANGED <<enabled, pauses>>
    /\ UNCHANGED besidesNotifier

\* `index = np.argmin(distances)`,
\* `config.bot.rune_closest_pos = config.routine[index].location`
WriteClosest ==
    /\ pc # "killed"
    /\ notifier.pc = "closest"
    /\ IF sequence[argmin(rune.pos)].id = "*"
       THEN /\ rune' = [rune EXCEPT !.closest = location(argmin(rune.pos))]
            /\ notifier' = [notifier EXCEPT !.pc = "activate"]
       ELSE /\ rune' = rune
            /\ notifier' = [notifier EXCEPT !.pc = "crashed", !.fault = "AttributeError"]
    /\ UNCHANGED <<enabled, pauses>>
    /\ UNCHANGED besidesNotifier

\* `config.bot.rune_active = True`
Activate ==
    /\ pc # "killed"
    /\ notifier.pc = "activate"
    /\ rune' = [rune EXCEPT !.active = TRUE]
    /\ notifier' = [notifier EXCEPT !.pc = "loop"]
    /\ UNCHANGED <<enabled, pauses>>
    /\ UNCHANGED besidesNotifier

NextPublish ==
    \/ Next
    \/ NotifierPass
    \/ \E pos \in Positions(sequence) : WriteRunePos(pos)
    \/ WriteClosest
    \/ Activate
    \/ NoRuneSeen
    \/ SolveRune
    \/ Navigate
    \/ Round
    \/ Buff
    \/ Finish

SpecPublish == InitDetect /\ [][NextPublish]_vars

\* rune_closest_pos is what the detection that wrote rune_pos has computed
\* from it
OneDetection == rune.closest = location(argmin(rune.pos))

\* the Bot has found rune_active true and is in _solve_rune before the
\* rounds, where it reads rune_pos for move and adjust
Navigating == pc \in {"solve_rune", "navigate"}

\* C39: the Notifier writes rune_pos and rune_closest_pos only while
\* rune_active is false and sets rune_active last; so whenever rune_active is
\* true, and as long as the Bot navigates to the rune, the two fields belong
\* to one and the same detection
C39_DetectionPublishedWhole ==
    /\ []((rune.active \/ Navigating) => (OneDetection /\ notifier.pc \notin {"closest", "activate"}))
    /\ [](Navigating => rune.active)
    /\ [][(rune'.pos # rune.pos \/ rune'.closest # rune.closest)
            => (~rune.active /\ ~rune'.active)]_vars
    /\ [][(~rune.active /\ rune'.active)
            => (notifier.pc = "activate" /\ rune'.pos = rune.pos
                                          /\ rune'.closest = rune.closest)]_vars

\* the Bot navigates to a rune that was detected after the one it had
\* solved, at another place
C39_Witness ==
    /\ pc = "navigate"
    /\ rune.solution_found
    /\ rune.active
    /\ rune.pos = 4
    /\ rune.closest = 3
    /\ notifier.pc = "loop"

\* between the two writes of the Notifier the fields are of two detections,
\* while rune_active is false
C39_HalfWritten ==
    /\ notifier.pc = "closest"
    /\ ~rune.active
    /\ rune.pos = 4
    /\ rune.closest = 1

============================================================================
